---------------------------- MODULE Spec2Model ----------------------------
(***************************************************************************)
(* Model of the theranostics chatbot's response pipeline and persistence:  *)
(*   - TheranosticsBot.generate_openrouter_response (src/chatbot.py), the   *)
(*     ordered fallback over the configured models with the sticky         *)
(*     active-model pointer;                                               *)
(*   - ConversationLogger.log_conversation (src/logging_module.py);        *)
(*   - MongoDBHandler.log_conversation, session_id-keyed                   *)
(*     (src/mongodb_handler.py) and user_id-keyed                          *)
(*     (src/src/database/mongodb_handler.py), with the index set-up of the *)
(*     latter.                                                             *)
(***************************************************************************)
EXTENDS Integers, Sequences, FiniteSets, TLC

(***************************************************************************)
(* Bounds of the model.                                                    *)
(***************************************************************************)
\* generate calls made in one behaviour
MaxCalls == 2
\* threads that may call into the bot or a store handler
NumThreads == 2
\* store-handler calls made in one behaviour of the store specifications
MaxStoreCalls == 4
\* generate calls made in one behaviour of the request-composition specification
MaxComposeCalls == 1
\* messages of the longest history handed to a generate call
MaxHistory == 12
\* study handler calls made in one behaviour
MaxHandlerCalls == 8
\* chat turns of a behaviour of the chat handlers
MaxTurns == 3

Threads == 1..NumThreads

(***************************************************************************)
(* src/config.py                                                           *)
(***************************************************************************)
PRIMARY_MODEL == "google/gemma-3-27b-it:free"

\* BACKUP_MODELS as config.py ships it
ShippedBackups ==
    << "qwen/qwen-2.5-coder-32b-instruct:free",
       "google/gemini-2.0-flash-exp:free",
       "microsoft/phi-3.5-mini-128k-instruct:free",
       "meta-llama/llama-3.1-8b-instruct:free" >>

\* The configurations the model covers: the shipped list and its prefixes
\* (the same code deployed with fewer backups, down to none), so that a call
\* has N = 1..5 candidates.
BackupConfigs == { SubSeq(ShippedBackups, 1, n) : n \in 0..Len(ShippedBackups) }

OPENROUTER_MODEL == PRIMARY_MODEL

AllModels == {PRIMARY_MODEL} \cup { ShippedBackups[k] : k \in 1..Len(ShippedBackups) }

(***************************************************************************)
(* Strings returned by generate_openrouter_response.                       *)
(***************************************************************************)
MsgClarify == "I understand your question. Could you please provide more details so I can give you a more specific answer?"
MsgTerminal == "I encountered an issue with the language model. Please try again or contact support if this persists."
MsgAllDegraded == "I'm experiencing technical difficulties with all available AI models. Please try again in a few moments, and I'll do my best to help you."
MsgAllIssues == "All language models are currently experiencing issues. Please try again in a few moments."
MsgConnTrouble == "I'm having trouble connecting to the language model. Please try again in a few moments."
MsgTimeout == "The request timed out. Please try asking your question again."
MsgApology == "I apologize, but I'm having trouble processing your request right now. Please try again."

\* chatbot.py 246 and 232-237
MsgUnavailableDe == "Der Dienst ist derzeit nicht verfügbar. Bitte versuchen Sie es später erneut."

fallback_responses ==
    << "I'm currently running in fallback mode. Please ensure OPENROUTER_API_KEY is set in your environment.",
       "I understand you have questions about your treatment. Please feel free to ask about anything that concerns you.",
       "Theranostics can seem complex, but I'm here to explain it in simple terms. What would you like to know?",
       "Many patients have similar concerns about nuclear medicine treatments. What specific questions do you have?" >>

\* config.py 19: os.getenv("OPENROUTER_API_KEY"), None when the variable
\* is not set
NoKey == "None"
SomeKey == "sk-or-v1-key"
ApiKeys == {NoKey, "", SomeKey}

\* chatbot.py 27-32
CheckOpenrouterKey(key) == key \notin {NoKey, ""}

\* model.split('/')[-1].replace(':free', '').replace('-', ' ').title()
ModelDisplayName(model) ==
    CASE model = "google/gemma-3-27b-it:free" -> "Gemma 3 27B It"
      [] model = "qwen/qwen-2.5-coder-32b-instruct:free" -> "Qwen 2.5 Coder 32B Instruct"
      [] model = "google/gemini-2.0-flash-exp:free" -> "Gemini 2.0 Flash Exp"
      [] model = "microsoft/phi-3.5-mini-128k-instruct:free" -> "Phi 3.5 Mini 128K Instruct"
      [] model = "meta-llama/llama-3.1-8b-instruct:free" -> "Llama 3.1 8B Instruct"
      [] OTHER -> "?"

(***************************************************************************)
(* What one provider request can come back with.                           *)
(*                                                                         *)
(* kind      "http" (a response), "timeout" (requests.exceptions.Timeout), *)
(*           "exception" (any other exception of requests.post)            *)
(* status    the HTTP status code (0 when there is no response)            *)
(* json      of a 200 body: "dict" (a JSON object), "notdict" (other JSON),*)
(*           "notjson" (response.json() raises ValueError)                 *)
(* choices   result["choices"][0]["message"]["content"]:                   *)
(*           "absent" (no "choices" key), "nokey" (a key missing further   *)
(*           down: KeyError), "bad" (empty list, or content not a string:  *)
(*           IndexError, TypeError, AttributeError), "text" (a non-blank   *)
(*           string), "blank" (a string that strips to "")                 *)
(* message   result['message'].get('content', ''): "absent", "bad"        *)
(*           (message is no dict), "text", "blank" (missing or falsy),     *)
(*           "nonstr" (a truthy value that is no string)                   *)
(* response, text   result['response'], result['text']: "absent", "text",  *)
(*           "blank" (falsy), "nonstr"                                     *)
(* err       of a non-200 body: "empty" (no body, or no error.message),    *)
(*           "notjson" (ValueError), "badshape" (JSON, but it or its       *)
(*           "error" is no dict: AttributeError), "nullmsg" (error.message *)
(*           is null), "nomatch" (a message matching no pattern),          *)
(*           "ratelimited", "noinstances", "providererror", "mixedcase"    *)
(*           (messages holding a pattern, the last one in other case)      *)
(***************************************************************************)
ErrStatuses == {400, 401, 403, 429, 499, 500, 502, 503}
ErrBodies == {"empty", "notjson", "badshape", "nullmsg", "nomatch",
              "ratelimited", "noinstances", "providererror", "mixedcase"}
ChoicesVals == {"absent", "nokey", "bad", "text", "blank"}
MessageVals == {"absent", "bad", "text", "blank", "nonstr"}
ValueVals == {"absent", "text", "blank", "nonstr"}

NoOutcome ==
    [kind |-> "none", status |-> 0, json |-> "na", err |-> "na",
     choices |-> "absent", message |-> "absent", response |-> "absent", text |-> "absent"]

Outcomes200 ==
    [kind : {"http"}, status : {200}, json : {"dict"}, err : {"na"},
     choices : ChoicesVals, message : MessageVals, response : ValueVals, text : ValueVals]
    \cup
    [kind : {"http"}, status : {200}, json : {"notjson", "notdict"}, err : {"na"},
     choices : {"absent"}, message : {"absent"}, response : {"absent"}, text : {"absent"}]

OutcomesErr ==
    [kind : {"http"}, status : ErrStatuses, json : {"na"}, err : ErrBodies,
     choices : {"absent"}, message : {"absent"}, response : {"absent"}, text : {"absent"}]

OutcomesRaise ==
    [kind : {"timeout", "exception"}, status : {0}, json : {"na"}, err : {"na"},
     choices : {"absent"}, message : {"absent"}, response : {"absent"}, text : {"absent"}]

Outcomes == Outcomes200 \cup OutcomesErr \cup OutcomesRaise

Http200(json, choices, message, response, text) ==
    [kind |-> "http", status |-> 200, json |-> json, err |-> "na",
     choices |-> choices, message |-> message, response |-> response, text |-> text]

\* The outcomes the provider of the call specifications answers with: every
\* kind of failure for a representative set of statuses and error bodies, and
\* 200 responses of each kind of body.
ProviderOutcomes ==
    { o \in OutcomesErr : o.status \in {400, 429, 500, 503}
                          /\ o.err \in {"notjson", "badshape", "nomatch", "ratelimited"} }
    \cup OutcomesRaise
    \cup { Http200("dict", "text", "absent", "absent", "absent"),
           Http200("dict", "absent", "absent", "nonstr", "absent"),
           Http200("dict", "nokey", "absent", "absent", "text"),
           Http200("dict", "absent", "absent", "absent", "absent"),
           Http200("notjson", "absent", "absent", "absent", "absent") }


(***************************************************************************)
(* State.                                                                  *)
(***************************************************************************)
VARIABLES
    BACKUP_MODELS,     \* config.BACKUP_MODELS of this deployment
    current_model,     \* TheranosticsBot.current_model, the active-model pointer
    call,              \* per thread: the generate_openrouter_response call it runs
    ncalls,            \* generate calls started so far
    prev,              \* the model the last finished call switched to ("" if none)
    ENABLE_MONGODB,    \* logging_module.ENABLE_MONGODB
    ENABLE_FILE_LOGS,  \* logging_module.ENABLE_FILE_LOGS
    connected,         \* MongoDBHandler.connected
    conversations,     \* the "conversations" collection: documents in natural order
    files,             \* the exchanges written as conversation_*.json backups
    now,               \* datetime.now(), as a logical clock
    indexes,           \* the collection's indexes, in list_indexes() order
    userConnected,     \* the user_id-keyed MongoDBHandler has connected
    op,                \* per thread: the store-handler call it runs
    nops,              \* store-handler calls started so far
    appended,          \* per key: the exchanges of the calls that returned True
    forms,             \* the "forms" collection: documents in natural order
    formIndexes,       \* the indexes of the forms collection
    openrouter_available, \* TheranosticsBot.openrouter_available
    logger_user_id,    \* ConversationLogger.user_id of the one logger of the process
    ui                 \* per participant: the gradio state of the chat page

vars == << BACKUP_MODELS, current_model, call, ncalls, prev, ENABLE_MONGODB,
           ENABLE_FILE_LOGS, connected, conversations, files, now, indexes,
           userConnected, op, nops, appended, forms, formIndexes,
           openrouter_available, logger_user_id, ui >>

botVars == << BACKUP_MODELS, current_model, call, ncalls, prev >>
\* what is fixed when the bot and its logger are constructed
settingVars == << ENABLE_MONGODB, ENABLE_FILE_LOGS, connected, openrouter_available >>
\* what the study handlers keep
studyVars == << logger_user_id, ui >>
\* what the calls of the bot and of the database handlers leave alone
logVars == << settingVars, studyVars >>
storeVars == << conversations, files, now >>
formVars == << forms, formIndexes >>
opVars == << indexes, userConnected, op, nops, appended, formVars >>

\* The user messages of the model.
Messages == {"Hi"}

\* ConversationLogger.session_id: one uuid4 per process
SessionId == "session-1"

NoRet == [kind |-> "none", type |-> "str", notice |-> "", body |-> ""]

IdleCall ==
    [pc |-> "idle", message |-> "", models_to_try |-> << >>, i |-> 0,
     first_model_failed |-> FALSE, reqs |-> << >>, last |-> NoOutcome,
     fails429 |-> TRUE, fails503 |-> TRUE, ptr0 |-> "",
     sawTerminal |-> FALSE,
     ret |-> NoRet, logs |-> 0, logRet |-> "none", logFailed |-> FALSE,
     logFile |-> FALSE,
     history |-> << >>, lang |-> "en", messages |-> << >>, sameList |-> TRUE,
     replaced |-> FALSE, logModel |-> "",
     who |-> "", handler |-> ""]

(***************************************************************************)
(* chatbot.py 69-70: the candidate list of a call.                         *)
(***************************************************************************)
RECURSIVE Without(_, _)
Without(seq, m) ==
    IF seq = << >> THEN << >>
    ELSE IF Head(seq) = m THEN Without(Tail(seq), m)
    ELSE << Head(seq) >> \o Without(Tail(seq), m)

\* as ModelsToTry, but always from the primary model
ModelsToTryFromPrimary(cur, backups) == << PRIMARY_MODEL >> \o backups

\* as ModelsToTry, with every backup kept
ModelsToTryAllBackups(cur, backups) == << cur >> \o backups

ModelsToTry(cur, backups) == << cur >> \o Without(backups, cur)

(***************************************************************************)
(* chatbot.py 112-129: the text of a 200 response.  raised: an exception   *)
(* leaves the block (to the handler of line 214).                          *)
(***************************************************************************)
Extracted(type, body) == [raised |-> FALSE, type |-> type, body |-> body]
ExtractRaised == [raised |-> TRUE, type |-> "str", body |-> ""]

\* result['response'] / result['text'] / result['message'].get('content', '')
AltValue(field, v) ==
    CASE v = "text" -> Extracted("str", field)
      [] v = "nonstr" -> Extracted("nonstr", field)
      [] v = "blank" -> Extracted("str", "")
      [] OTHER -> ExtractRaised

AlternativeFormats(o) ==
    IF o.message # "absent" THEN AltValue("message", o.message)
    ELSE IF o.response # "absent" THEN AltValue("response", o.response)
    ELSE IF o.text # "absent" THEN AltValue("text", o.text)
    ELSE ExtractRaised

ExtractText(o) ==
    IF o.json # "dict" THEN ExtractRaised
    ELSE CASE o.choices = "text" -> Extracted("str", "choices")
           [] o.choices = "blank" -> Extracted("str", "")
           [] o.choices = "bad" -> ExtractRaised
           [] OTHER -> AlternativeFormats(o)

\* line 128: if not assistant_response
AssistantResponse(x) == IF x.body = "" THEN Extracted("str", MsgClarify) ELSE x

(***************************************************************************)
(* chatbot.py 146-172: the classification of a non-200 response.           *)
(***************************************************************************)
MessageMatches(err) == err \in {"ratelimited", "noinstances", "providererror", "mixedcase"}

\* as ShouldFallback, without the tests of the message (lines 161-169)
ShouldFallbackByStatus(status, err) ==
    \/ status = 429
    \/ status = 503
    \/ status >= 500

\* as ShouldFallback, without the test of line 155
ShouldFallbackNo429(status, err) ==
    \/ status = 503
    \/ MessageMatches(err)
    \/ status >= 500

ShouldFallback(status, err) ==
    \/ status = 429
    \/ status = 503
    \/ MessageMatches(err)
    \/ status >= 500

\* as ErrorVerdict, but an error that warrants no fallback moves on too
ErrorVerdictNoTerminal(status, err) ==
    CASE err = "notjson" -> "unparseable"
      [] err = "badshape" -> "exception"
      [] err = "nullmsg" /\ status \notin {429, 503} -> "exception"
      [] OTHER -> "fallback"

\* How the handling of a non-200 response leaves the try block:
\*   "unparseable"  ValueError of response.json() (handler of line 194)
\*   "exception"    AttributeError (handler of line 214)
\*   "fallback" / "terminal"   should_fallback or not
ErrorVerdict(status, err) ==
    CASE err = "notjson" -> "unparseable"
      [] err = "badshape" -> "exception"
      [] err = "nullmsg" /\ status \notin {429, 503} -> "exception"
      [] ShouldFallback(status, err) -> "fallback"
      [] OTHER -> "terminal"

(***************************************************************************)
(* The "conversations" collection.  A document is keyed by session_id      *)
(* (src/mongodb_handler.py) or by user_id                                  *)
(* (src/src/database/mongodb_handler.py): kf names the key field.          *)
(***************************************************************************)
Exchange(message, response, model, ts) ==
    [timestamp |-> ts, user_message |-> message, bot_response |-> response,
     model_used |-> model]

NewDocument(kf, key, ex, ts) ==
    [kf |-> kf, key |-> key, created_at |-> ts, last_updated |-> ts,
     total_exchanges |-> 1, conversation_history |-> << ex >>]

Matching(coll, kf, key) == { k \in 1..Len(coll) : coll[k].kf = kf /\ coll[k].key = key }

Least(S) == CHOOSE k \in S : \A j \in S : k <= j

\* find_one / the document update_one updates: the first match, 0 if none
FindOne(coll, kf, key) ==
    IF Matching(coll, kf, key) = {} THEN 0 ELSE Least(Matching(coll, kf, key))

\* as UpdateSetTotal, with the exchange put in front of the history
UpdateSetTotalInFront(coll, k, ex, ts, total) ==
    [coll EXCEPT ![k] =
        [@ EXCEPT !.conversation_history = << ex >> \o @,
                  !.last_updated = ts,
                  !.total_exchanges = total]]

\* mongodb_handler.py 134-143: $push the exchange, $set last_updated and
\* total_exchanges (the total the caller computed from the document it read)
UpdateSetTotal(coll, k, ex, ts, total) ==
    [coll EXCEPT ![k] =
        [@ EXCEPT !.conversation_history = Append(@, ex),
                  !.last_updated = ts,
                  !.total_exchanges = total]]

\* mongodb_handler.py 149-158
InsertOne(coll, kf, key, ex, ts) == Append(coll, NewDocument(kf, key, ex, ts))

\* What the database does with one write of the handler: it applies it
\* ("ok"), reports that nothing was written ("reject": modified_count = 0,
\* no inserted_id), or the driver raises ("raise").
DbOutcomes == {"ok", "reject", "raise"}

(***************************************************************************)
(* src/mongodb_handler.py 106-169, MongoDBHandler.log_conversation, run    *)
(* with no other call in between.  [ok, coll]: the value returned and the  *)
(* collection afterwards.                                                  *)
(***************************************************************************)
SessionLogConversation(coll, isConnected, session_id, ex, ts, db) ==
    LET k == FindOne(coll, "session_id", session_id) IN
    IF ~isConnected \/ db # "ok" THEN [ok |-> FALSE, coll |-> coll]
    ELSE IF k > 0
         THEN [ok |-> TRUE,
               coll |-> UpdateSetTotal(coll, k, ex, ts, coll[k].total_exchanges + 1)]
         ELSE [ok |-> TRUE, coll |-> InsertOne(coll, "session_id", session_id, ex, ts)]

(***************************************************************************)
(* src/logging_module.py 68-139, ConversationLogger.log_conversation.      *)
(* raised: an exception leaves the method.  Both the handler (line 167)    *)
(* and the logger (line 126) catch every exception of the database call,   *)
(* and _log_to_file (line 158) every exception of the file write.          *)
(***************************************************************************)
\* logging_module.py 150-151, datetime.isoformat(): the timestamp as a string
Isoformat(ts) == [isoformat |-> ts]

\* logging_module.py 94-101 and 149-151: the record written to the file of
\* an exchange (it has no model_used)
LogData(session_id, ex) ==
    [session_id |-> session_id, timestamp |-> Isoformat(ex.timestamp),
     user_input |-> ex.user_message, bot_response |-> ex.bot_response]

\* as LogConversationRaises, with no handler for the driver's exception
LogConversationPropagates(db, fileOk) == db = "raise"

LogConversationRaises(db, fileOk) == FALSE

LoggerLogConversation(message, response, model, db, fileOk) ==
    LET ex == Exchange(message, response, model, now)
        mongo == IF ENABLE_MONGODB
                 THEN SessionLogConversation(conversations, connected, SessionId, ex, now, db)
                 ELSE [ok |-> FALSE, coll |-> conversations]
        file_success == ENABLE_FILE_LOGS /\ fileOk
    IN  IF ~(ENABLE_MONGODB \/ ENABLE_FILE_LOGS)
        THEN [raised |-> FALSE, ok |-> FALSE, coll |-> conversations,
              files |-> files, now |-> now]
        ELSE [raised |-> ENABLE_MONGODB /\ LogConversationRaises(db, fileOk),
              ok |-> mongo.ok \/ file_success,
              coll |-> mongo.coll,
              files |-> IF file_success THEN Append(files, LogData(SessionId, ex))
                        ELSE files,
              now |-> now + 1]

(***************************************************************************)
(* src/logging_module.py 229-256, ConversationLogger.get_session_conversations *)
(* (src/src/core/conversation.py 255-285, get_user_conversations, likewise). *)
(* Neither handler has a get_session_conversations method: the call of     *)
(* line 237 raises AttributeError, line 238 catches it (the newer logger   *)
(* has the call commented out), and the files are read.                    *)
(***************************************************************************)
\* sorted(conversations, key=timestamp): r put into a sorted sequence
RECURSIVE InsertSorted(_, _)
InsertSorted(r, sorted) ==
    IF sorted = << >> THEN << r >>
    ELSE IF r.timestamp.isoformat < Head(sorted).timestamp.isoformat
    THEN << r >> \o sorted
    ELSE << Head(sorted) >> \o InsertSorted(r, Tail(sorted))

RECURSIVE SortedByTimestamp(_)
SortedByTimestamp(fs) ==
    IF fs = << >> THEN << >>
    ELSE InsertSorted(fs[Len(fs)], SortedByTimestamp(SubSeq(fs, 1, Len(fs) - 1)))

\* lines 243-256: the files of the session, sorted by timestamp
GetFileConversations(fs, session_id) ==
    SortedByTimestamp(SelectSeq(fs, LAMBDA r : r.session_id = session_id))

GetSessionConversations(fs, session_id) ==
    IF ~(ENABLE_MONGODB \/ ENABLE_FILE_LOGS) THEN << >>
    ELSE GetFileConversations(fs, session_id)

(***************************************************************************)
(* The keys of the two handlers and the exchange their calls store.        *)
(***************************************************************************)
Sessions == {"session-1", "session-2"}
Users == {"user-1", "user-2"}
StoreKeys == Sessions \cup Users

KeyField(key) == IF key \in Users THEN "user_id" ELSE "session_id"

StoredResponse == [kind |-> "success", type |-> "str", notice |-> "", body |-> "choices"]

\* A form payload: the value of each key it may name, Absent for a key it
\* does not name.
Absent == "absent"
FormKeys == {"a", "b", "user_id", "session_id"}
NoFields == [f \in FormKeys |-> Absent]

\* src/src/core/conversation.py 33: str(uuid.uuid4()), the user_id of the
\* logger before any handler has set it
LoggerUuid == "uuid4"

\* the gradio state of a participant who has opened the study: the section
\* shown, the chatbot history, question_count and whether the next button
\* is visible
NewPage == [page |-> "consent", history |-> << >>, question_count |-> 0, next |-> FALSE]

\* study_config.py 11 (src/src/study/config.py is not part of src/)
MINIMUM_QUESTIONS == 3

IdleOp ==
    [pc |-> "idle", kind |-> "none", key |-> "", found |-> FALSE, total |-> 0,
     ex |-> Exchange("", StoredResponse, "", 0), data |-> NoFields, ret |-> "none"]

(***************************************************************************)
(* Indexes.  The value a document has for an indexed field is its key when *)
(* the field is its key field and null otherwise; a unique index admits no *)
(* two documents of the same value, null included.                         *)
(***************************************************************************)
Index(name, field, unique) == [name |-> name, field |-> field, unique |-> unique]

SessionIdx == Index("session_id_1", "session_id", FALSE)
UserIdx == Index("user_id_1", "user_id", FALSE)
UserUniqueIdx == Index("user_id_unique_idx", "user_id", TRUE)

FieldValue(doc, field) == IF doc.kf = field THEN doc.key ELSE "null"

HasUniqueIndex(idx, field) ==
    \E k \in 1..Len(idx) : idx[k].field = field /\ idx[k].unique

\* some unique index holds a document with the value doc has for its field
DuplicateKey(coll, idx, doc) ==
    \E k \in 1..Len(idx), j \in 1..Len(coll) :
        idx[k].unique /\ FieldValue(coll[j], idx[k].field) = FieldValue(doc, idx[k].field)

\* two documents of the collection have the same value for the field
HasDuplicates(coll, field) ==
    \E j, k \in 1..Len(coll) :
        j # k /\ FieldValue(coll[j], field) = FieldValue(coll[k], field)

RECURSIVE DropIndex(_, _)
DropIndex(idx, name) ==
    IF idx = << >> THEN << >>
    ELSE IF Head(idx).name = name THEN DropIndex(Tail(idx), name)
    ELSE << Head(idx) >> \o DropIndex(Tail(idx), name)

HasIndexNamed(idx, name) == \E k \in 1..Len(idx) : idx[k].name = name

(***************************************************************************)
(* src/src/database/mongodb_handler.py 128-174, _ensure_unique_user_index. *)
(***************************************************************************)
\* lines 137-153, the loop over the indexes listed (listed: what is left of
\* the listing; idx: the indexes of the collection): it stops at the first
\* user_id index and drops the session_id indexes it meets before.
RECURSIVE ScanIndexes(_, _)
ScanIndexes(listed, idx) ==
    IF listed = << >>
    THEN [exists |-> FALSE, unique |-> FALSE, idx |-> idx]
    ELSE IF Head(listed).field = "user_id"
    THEN [exists |-> TRUE, unique |-> Head(listed).unique, idx |-> idx]
    ELSE IF Head(listed).field = "session_id"
    THEN ScanIndexes(Tail(listed),
                     DropIndex(DropIndex(idx, "session_id_1"), "session_id_unique_idx"))
    ELSE ScanIndexes(Tail(listed), idx)

\* lines 161-167: create_index fails (and line 172 catches it) when two
\* documents have the same user_id, or two have none
CreateUniqueUserIndex(idx, coll) ==
    IF HasDuplicates(coll, "user_id") \/ HasIndexNamed(idx, "user_id_unique_idx")
    THEN idx
    ELSE Append(idx, UserUniqueIdx)

EnsureUniqueUserIndex(idx, coll) ==
    LET scan == ScanIndexes(idx, idx) IN
    IF scan.exists /\ scan.unique THEN scan.idx
    ELSE IF scan.exists
         THEN IF HasIndexNamed(scan.idx, "user_id_1")
              THEN CreateUniqueUserIndex(DropIndex(scan.idx, "user_id_1"), coll)
              ELSE scan.idx
         ELSE CreateUniqueUserIndex(scan.idx, coll)

(***************************************************************************)
(* src/src/database/mongodb_handler.py 221-234: the update of update_one   *)
(* with upsert: $push the exchange, $inc total_exchanges, $set             *)
(* last_updated.                                                           *)
(***************************************************************************)
UpdatePushInc(coll, k, ex, ts) ==
    [coll EXCEPT ![k] =
        [@ EXCEPT !.conversation_history = Append(@, ex),
                  !.last_updated = ts,
                  !.total_exchanges = @ + 1]]

(***************************************************************************)
(* src/chatbot.py 77-96: the message list of a request.  A content is a    *)
(* text, with the prefix put in front of it and, for a message of the      *)
(* history, its position in the history.                                   *)
(***************************************************************************)
HistoryLimit == 10
ShortMessageWords == 5

Langs == {"en", "de"}

LongMessage == "What happens during a theranostics treatment session"
AllMessages == Messages \cup {LongMessage}

\* len(message.split())
WordCount(message) == IF message = LongMessage THEN 7 ELSE 1

Content(prefix, text, turn) == [prefix |-> prefix, text |-> text, turn |-> turn]

Msg(role, content) == [role |-> role, content |-> content]

\* a history of n messages, users and assistant in turn
Conversation(n) ==
    [k \in 1..n |->
        Msg(IF k % 2 = 1 THEN "user" ELSE "assistant", Content("", "history", k))]

\* the same, with a message of another role one before the last
WithSystemNote(n) ==
    [Conversation(n) EXCEPT ![n - 1] = Msg("system", Content("", "history", n - 1))]

Histories ==
    { Conversation(n) : n \in {0, 3, HistoryLimit, HistoryLimit + 1, MaxHistory} }
        \cup { WithSystemNote(MaxHistory) }

\* lines 34-64, _get_system_prompt
SystemPrompt(lang) ==
    IF lang = "de"
    THEN "Sie sind ein mitfuehlender KI-Assistent, spezialisiert auf Patientenaufklaerung"
    ELSE "You are a compassionate AI assistant specializing in patient education"

GermanOnly == Msg("system", Content("", "Please respond only in German (Deutsch).", 0))

\* as RecentHistory, with the whole history forwarded
RecentHistoryUnbounded(history) == history

\* line 82: history[-10:] if len(history) > 10 else history
RecentHistory(history) ==
    IF Len(history) > HistoryLimit
    THEN SubSeq(history, Len(history) - HistoryLimit + 1, Len(history))
    ELSE history

\* lines 83-85
ForwardedHistory(history) ==
    SelectSeq(RecentHistory(history), LAMBDA m : m.role \in {"user", "assistant"})

\* lines 92-94
EnhancedMessage(message) ==
    IF WordCount(message) < ShortMessageWords
    THEN Content("Please provide a comprehensive explanation about: ", message, 0)
    ELSE Content("", message, 0)

\* as LanguageInstruction, with the instruction put before the history
NoLanguageInstruction(lang) == << >>

\* lines 88-89
LanguageInstruction(lang) == IF lang = "de" THEN << GermanOnly >> ELSE << >>

OutboundMessages(message, history, lang) ==
    << Msg("system", Content("", SystemPrompt(lang), 0)) >>
        \o ForwardedHistory(history)
        \o LanguageInstruction(lang)
        \o << Msg("user", EnhancedMessage(message)) >>

(***************************************************************************)
(* TheranosticsBot.generate_openrouter_response, src/chatbot.py 66-228.    *)
(***************************************************************************)
Candidates(c) == Len(c.models_to_try)

\* the model of iteration i of the loop of line 73 (i counts from 0)
Candidate(c) == c.models_to_try[c.i + 1]

Returned(c, kind, type, notice, body) ==
    [c EXCEPT !.pc = "done",
              !.ret = [kind |-> kind, type |-> type, notice |-> notice, body |-> body]]

\* as ContinueOrReturn, with the failure of the first candidate forgotten
ContinueOrReturnForgets(c, message) ==
    IF c.i < Candidates(c) - 1
    THEN [c EXCEPT !.i = c.i + 1]
    ELSE Returned(c, "error", "str", "", message)

\* "if i < len(models_to_try) - 1: if i == 0: first_model_failed = True;
\* continue / else: return <message>" (lines 178-183, 197-203, 207-213, 216-222)
ContinueOrReturn(c, message) ==
    IF c.i < Candidates(c) - 1
    THEN [c EXCEPT !.i = c.i + 1,
                   !.first_model_failed = (c.i = 0) \/ c.first_model_failed]
    ELSE Returned(c, "error", "str", "", message)

\* as ExhaustedMessage, whatever the first candidate did
ExhaustedMessageOneText(first_model_failed) == MsgAllIssues

\* lines 189-192
ExhaustedMessage(first_model_failed) ==
    IF first_model_failed THEN MsgAllDegraded ELSE MsgAllIssues

\* lines 144-203: a response whose status is not 200
OnErrorResponse(c, o) ==
    CASE ErrorVerdict(o.status, o.err) = "unparseable" -> ContinueOrReturn(c, MsgConnTrouble)
      [] ErrorVerdict(o.status, o.err) = "exception" -> ContinueOrReturn(c, MsgApology)
      [] ErrorVerdict(o.status, o.err) = "terminal" -> Returned(c, "error", "str", "", MsgTerminal)
      [] OTHER -> ContinueOrReturn(c, ExhaustedMessage(c.first_model_failed))

\* as Switches, with the pointer never moved
SwitchesNever(c, model, cur) == FALSE

\* line 132: the call switches to the model that answered
Switches(c, model, cur) == c.i > 0 /\ model # cur

\* lines 131-138: what is returned for the extracted text x; the notice is
\* an f-string, which makes a string of whatever x is
ResponseFor(c, model, cur, x) ==
    IF Switches(c, model, cur)
    THEN [kind |-> "success", type |-> "str", notice |-> ModelDisplayName(model), body |-> x.body]
    ELSE [kind |-> "success", type |-> x.type, notice |-> "", body |-> x.body]

\* The fields of a call that record what happened in it (reqs: the models
\* requested, in order; last: the outcome of the last request; ptr0: the
\* pointer when the call began; logs, logRet: the calls of
\* conversation_logger.log_conversation and what the last one returned;
\* logFailed: the database was asked to store the exchange and did not;
\* logFile: the file backup of the exchange was written) are read by the
\* properties only, never by the actions.
\* The request just made and its outcome.
\* lines 98-109: the request of the attempt; messages is its message list,
\* sameList: every request of the call so far carried the same list
Requested(c, o) ==
    [c EXCEPT !.reqs = Append(@, Candidate(c)), !.last = o,
              !.messages = OutboundMessages(c.message, c.history, c.lang),
              !.sameList = /\ c.sameList
                           /\ \/ c.reqs = << >>
                              \/ c.messages = OutboundMessages(c.message, c.history, c.lang)]

\* A response of the kind lines 184-186 are written for: a status that is
\* not 200, 429, 503 or 5xx, with a structured error body (or none) whose
\* message holds none of the patterns of lines 161-169.
TerminalResponse(o) ==
    /\ o.kind = "http"
    /\ o.status \notin {200, 429, 503}
    /\ o.status < 500
    /\ o.err \in {"empty", "nomatch"}

\* The ghost fields of a call whose request failed: whether every failed
\* request of the call so far was answered 429, or 503, and whether one was
\* a terminal response.  A call that goes on keeps these and forgets the
\* outcome itself.
Failed(c, o) ==
    [c EXCEPT !.fails429 = c.fails429 /\ o.status = 429,
              !.fails503 = c.fails503 /\ o.status = 503,
              !.sawTerminal = c.sawTerminal \/ TerminalResponse(o),
              !.last = IF c.pc = "done" THEN o ELSE NoOutcome]

\* lines 69-71
\* lines 66-72: a call with a message, a history and a language of the
\* given sets, the calls of a behaviour limited to max
GenerateFrom(t, max, messages, histories, langs) ==
    /\ call[t].pc = "idle"
    /\ \A u \in Threads : call[u].pc = "idle"
    /\ ncalls < max
    /\ \E message \in messages, history \in histories, lang \in langs :
         call' = [call EXCEPT ![t] =
                    [IdleCall EXCEPT !.pc = "loop",
                                     !.message = message,
                                     !.history = history,
                                     !.lang = lang,
                                     !.models_to_try = ModelsToTry(current_model, BACKUP_MODELS),
                                     !.ptr0 = current_model]]
    /\ ncalls' = ncalls + 1
    /\ UNCHANGED << BACKUP_MODELS, current_model, prev, logVars, storeVars, opVars >>

\* lines 111-126: the response is a 200 whose text can be extracted
Success(o) == o.kind = "http" /\ o.status = 200 /\ ~ExtractText(o).raised

\* lines 73-143, one iteration of the loop: the request to the candidate of
\* iteration i is answered 200 with a text; the pointer update, the logging
\* (db, fileOk: what the database and the file system do with it) and the
\* return.
\* lines 111-143: the call after a 200 response that carries an answer
Answered(c0, o, db, fileOk) ==
    LET c == Requested(c0, o)
        model == Candidate(c0)
        resp == ResponseFor(c, model, current_model, AssistantResponse(ExtractText(o)))
        log == LoggerLogConversation(c.message, resp, model, db, fileOk)
        logged == [c EXCEPT !.logs = c.logs + 1,
                            !.logModel = model,
                            !.logRet = IF log.raised THEN "raised"
                                       ELSE IF log.ok THEN "True" ELSE "False",
                            !.logFailed = ENABLE_MONGODB /\ (~connected \/ db # "ok"),
                            !.logFile = ENABLE_FILE_LOGS /\ fileOk]
    IN  IF log.raised
        THEN ContinueOrReturn(logged, MsgApology)
        ELSE [logged EXCEPT !.pc = "done", !.ret = resp]

\* as OnTimeout, with the call given up at the first timeout
OnTimeoutGivesUp(c) == Returned(c, "error", "str", "", MsgTimeout)

\* lines 205-213
OnTimeout(c) == ContinueOrReturn(c, MsgTimeout)

\* the call after an attempt that did not give an answer
AfterFailure(c0, o) ==
    LET c == Requested(c0, o) IN
    Failed(CASE o.kind = "timeout" -> OnTimeout(c)
             [] o.kind = "exception" -> ContinueOrReturn(c, MsgApology)
             [] o.status = 200 -> ContinueOrReturn(c, MsgApology)
             [] OTHER -> OnErrorResponse(c, o),
           o)

AttemptSucceeds(t) ==
    /\ call[t].pc = "loop"
    /\ \E o \in ProviderOutcomes, db \in DbOutcomes, fileOk \in BOOLEAN :
         LET c == Requested(call[t], o)
             model == Candidate(call[t])
             resp == ResponseFor(c, model, current_model, AssistantResponse(ExtractText(o)))
             log == LoggerLogConversation(c.message, resp, model, db, fileOk)
         IN  /\ Success(o)
             /\ current_model' = IF Switches(c, model, current_model)
                                 THEN model ELSE current_model
             /\ conversations' = log.coll
             /\ files' = log.files
             /\ now' = log.now
             /\ call' = [call EXCEPT ![t] = Answered(call[t], o, db, fileOk)]
    /\ UNCHANGED << BACKUP_MODELS, ncalls, prev, logVars, opVars >>

\* lines 73-110 and 144-222, one iteration of the loop: the request to the
\* candidate of iteration i fails (a status other than 200, a 200 without
\* text, a timeout, another exception).
AttemptFails(t) ==
    /\ call[t].pc = "loop"
    /\ \E o \in ProviderOutcomes :
         /\ ~Success(o)
         /\ call' = [call EXCEPT ![t] = AfterFailure(call[t], o)]
    /\ UNCHANGED << BACKUP_MODELS, current_model, ncalls, prev, logVars, storeVars, opVars >>

\* the caller takes the returned value
\* a call of an English conversation that has no history yet
Generate(t) == GenerateFrom(t, MaxCalls, Messages, { << >> }, {"en"})

\* a call with any message, history and language
GenerateAny(t) == GenerateFrom(t, MaxComposeCalls, AllMessages, Histories, Langs)

\* an attempt answered by any non-200 response of the table; the response
\* stays in last for the properties to read
AttemptAnswersError(t) ==
    /\ call[t].pc = "loop"
    /\ \E o \in OutcomesErr :
         LET c == Requested(call[t], o) IN
         call' = [call EXCEPT ![t] = [Failed(OnErrorResponse(c, o), o) EXCEPT !.last = o]]
    /\ UNCHANGED << BACKUP_MODELS, current_model, ncalls, prev, logVars, storeVars, opVars >>

Return(t) ==
    /\ call[t].pc = "done"
    /\ prev' = IF call[t].ret.kind = "success" /\ call[t].i > 0
               THEN Candidate(call[t]) ELSE ""
    /\ call' = [call EXCEPT ![t] = IdleCall]
    /\ UNCHANGED << BACKUP_MODELS, current_model, ncalls, logVars, storeVars, opVars >>

\* chatbot.py 22-25: a bot constructed with the given OPENROUTER_API_KEY
InitBotWith(key) ==
    /\ BACKUP_MODELS \in BackupConfigs
    /\ current_model = OPENROUTER_MODEL
    /\ openrouter_available = CheckOpenrouterKey(key)
    /\ call = [t \in Threads |-> IdleCall]
    /\ ncalls = 0
    /\ prev = ""

InitBot == InitBotWith(SomeKey)

InitStore(idx) ==
    /\ conversations = << >>
    /\ files = << >>
    /\ now = 1
    /\ indexes = idx
    /\ userConnected = FALSE
    /\ op = [t \in Threads |-> IdleOp]
    /\ nops = 0
    /\ appended = [k \in StoreKeys |-> << >>]
    /\ forms = << >>
    /\ formIndexes = idx
    /\ logger_user_id = LoggerUuid
    /\ ui = [p \in StoreKeys |-> NewPage]

\* chatbot.py 22-25 and logging_module.py 31-61: a bot with its logger, on a
\* database that holds nothing.
Init ==
    /\ InitBot
    /\ InitStore(<< >>)
    /\ ENABLE_MONGODB \in BOOLEAN
    /\ ENABLE_FILE_LOGS \in BOOLEAN
    /\ connected \in (IF ENABLE_MONGODB THEN BOOLEAN ELSE {FALSE})

\* The bot serves one call at a time, on thread 1.
Next ==
    \/ Generate(1)
    \/ AttemptSucceeds(1)
    \/ AttemptFails(1)
    \/ Return(1)

Spec == Init /\ [][Next]_vars

\* A bot with two backups and logging switched off, called with any message,
\* history and language.
InitCompose ==
    /\ InitBot
    /\ BACKUP_MODELS = SubSeq(ShippedBackups, 1, 2)
    /\ InitStore(<< >>)
    /\ ENABLE_MONGODB = FALSE
    /\ ENABLE_FILE_LOGS = FALSE
    /\ connected = FALSE

NextCompose ==
    \/ GenerateAny(1)
    \/ AttemptSucceeds(1)
    \/ AttemptFails(1)
    \/ Return(1)

SpecCompose == InitCompose /\ [][NextCompose]_vars

\* A bot with logging switched off whose candidates answer any error of the
\* table.
InitClassify ==
    /\ InitBot
    /\ InitStore(<< >>)
    /\ ENABLE_MONGODB = FALSE
    /\ ENABLE_FILE_LOGS = FALSE
    /\ connected = FALSE

NextClassify ==
    \/ Generate(1)
    \/ AttemptAnswersError(1)
    \/ AttemptSucceeds(1)
    \/ AttemptFails(1)
    \/ Return(1)

SpecClassify == InitClassify /\ [][NextClassify]_vars

\* lines 111-143 and 214-222: an attempt answered 200 with any body; the
\* response stays in last for the properties to read
AttemptAnswers200(t) ==
    /\ call[t].pc = "loop"
    /\ \E o \in Outcomes200, db \in DbOutcomes, fileOk \in BOOLEAN :
         LET c == Requested(call[t], o)
             model == Candidate(call[t])
             resp == ResponseFor(c, model, current_model, AssistantResponse(ExtractText(o)))
             log == LoggerLogConversation(c.message, resp, model, db, fileOk)
         IN  IF Success(o)
             THEN /\ current_model' = IF Switches(c, model, current_model)
                                      THEN model ELSE current_model
                  /\ conversations' = log.coll
                  /\ files' = log.files
                  /\ now' = log.now
                  /\ call' = [call EXCEPT ![t] = Answered(call[t], o, db, fileOk)]
             ELSE /\ call' = [call EXCEPT ![t] =
                                [AfterFailure(call[t], o) EXCEPT !.last = o]]
                  /\ UNCHANGED << current_model, storeVars >>
    /\ UNCHANGED << BACKUP_MODELS, ncalls, prev, logVars, opVars >>

\* A bot with two backups and logging switched off whose candidates answer
\* 200 with any body, or fail.
NextParse ==
    \/ Generate(1)
    \/ AttemptAnswers200(1)
    \/ AttemptFails(1)
    \/ Return(1)

SpecParse == InitCompose /\ [][NextParse]_vars

(***************************************************************************)
(* Calls of generate_openrouter_response on several threads that share one *)
(* bot (gradio serves each event on a worker thread; the bot is a module   *)
(* global).  A step is one iteration of the loop of a call: the pointer is *)
(* read at lines 69-70 and at line 132 and written at line 133, with no    *)
(* lock.                                                                   *)
(***************************************************************************)
\* lines 66-72, whatever the other threads are doing
Enter(t) ==
    /\ call[t].pc = "idle"
    /\ ncalls < MaxCalls
    /\ \E message \in Messages :
         call' = [call EXCEPT ![t] =
                    [IdleCall EXCEPT !.pc = "loop",
                                     !.message = message,
                                     !.models_to_try = ModelsToTry(current_model, BACKUP_MODELS),
                                     !.ptr0 = current_model]]
    /\ ncalls' = ncalls + 1
    /\ UNCHANGED << BACKUP_MODELS, current_model, prev, logVars, storeVars, opVars >>

NextShared ==
    \E t \in Threads :
        \/ Enter(t)
        \/ AttemptSucceeds(t)
        \/ AttemptFails(t)
        \/ Return(t)

SpecShared == InitCompose /\ [][NextShared]_vars

(***************************************************************************)
(* TheranosticsBot.chatbot_response, src/chatbot.py 240-253, of a bot      *)
(* constructed with or without an API key.                                 *)
(***************************************************************************)
\* as UsesProvider, whatever the constructor found
UsesProviderAlways(available) == TRUE

\* line 242
UsesProvider(available) == available

\* lines 244-248: the response of a bot without a key; choice is the draw
\* of random.choice
FallbackText(lang, choice) ==
    IF lang = "de" THEN MsgUnavailableDe ELSE fallback_responses[choice]

\* lines 242-243
ChatbotGenerates(t) ==
    /\ UsesProvider(openrouter_available)
    /\ GenerateFrom(t, MaxCalls, Messages, { << >> }, Langs)

\* lines 244-253
ChatbotFallsBack(t) ==
    /\ ~UsesProvider(openrouter_available)
    /\ \A u \in Threads : call[u].pc = "idle"
    /\ ncalls < MaxCalls
    /\ \E message \in Messages, lang \in Langs,
          choice \in 1..Len(fallback_responses), db \in DbOutcomes, fileOk \in BOOLEAN :
         LET response == [kind |-> "fallback", type |-> "str", notice |-> "",
                          body |-> FallbackText(lang, choice)]
             log == LoggerLogConversation(message, response, "fallback", db, fileOk)
         IN  /\ conversations' = log.coll
             /\ files' = log.files
             /\ now' = log.now
             /\ call' = [call EXCEPT ![t] =
                           [IdleCall EXCEPT
                              !.pc = "done",
                              !.message = message,
                              !.lang = lang,
                              !.ptr0 = current_model,
                              !.logs = 1,
                              !.logModel = "fallback",
                              !.logRet = IF log.raised THEN "raised"
                                         ELSE IF log.ok THEN "True" ELSE "False",
                              !.logFailed = ENABLE_MONGODB /\ (~connected \/ db # "ok"),
                              !.logFile = ENABLE_FILE_LOGS /\ fileOk,
                              !.ret = IF log.raised
                                      THEN [response EXCEPT !.kind = "raised"]
                                      ELSE response]]
    /\ ncalls' = ncalls + 1
    /\ UNCHANGED << BACKUP_MODELS, current_model, prev, logVars, opVars >>

\* a bot with two backups, constructed with any value of OPENROUTER_API_KEY
InitChat ==
    /\ \E key \in ApiKeys : InitBotWith(key)
    /\ BACKUP_MODELS = SubSeq(ShippedBackups, 1, 2)
    /\ InitStore(<< >>)
    /\ ENABLE_MONGODB \in BOOLEAN
    /\ ENABLE_FILE_LOGS \in BOOLEAN
    /\ connected \in (IF ENABLE_MONGODB THEN BOOLEAN ELSE {FALSE})

NextChat ==
    \/ ChatbotGenerates(1)
    \/ ChatbotFallsBack(1)
    \/ AttemptSucceeds(1)
    \/ AttemptFails(1)
    \/ Return(1)

SpecChat == InitChat /\ [][NextChat]_vars

(***************************************************************************)
(* Two runs of generate_openrouter_response side by side, from the same    *)
(* pointer and configuration: call[1] is given a sequence of candidate     *)
(* outcomes, call[2] the same sequence with a timeout in place of some of  *)
(* its retryable error responses (replaced: one was put in place).         *)
(***************************************************************************)
Timeout ==
    [kind |-> "timeout", status |-> 0, json |-> "na", err |-> "na",
     choices |-> "absent", message |-> "absent", response |-> "absent", text |-> "absent"]

\* a response of lines 171-178: not 200, and classified for fallback
RetryableError(o) ==
    /\ o.kind = "http"
    /\ o.status # 200
    /\ ErrorVerdict(o.status, o.err) = "fallback"

\* lines 66-72, for both runs
GenerateBoth ==
    /\ \A u \in Threads : call[u].pc = "idle"
    /\ ncalls < MaxCalls
    /\ \E message \in Messages :
         call' = [u \in Threads |->
                    IF u \in {1, 2}
                    THEN [IdleCall EXCEPT !.pc = "loop",
                                          !.message = message,
                                          !.models_to_try = ModelsToTry(current_model, BACKUP_MODELS),
                                          !.ptr0 = current_model]
                    ELSE call[u]]
    /\ ncalls' = ncalls + 1
    /\ UNCHANGED << BACKUP_MODELS, current_model, prev, logVars, storeVars, opVars >>

\* lines 98-126, 131-143: the candidate of both runs answers
BothSucceed ==
    /\ call[1].pc = "loop"
    /\ call[2].pc = "loop"
    /\ \E o \in ProviderOutcomes :
         /\ Success(o)
         /\ current_model' = IF Switches(call[1], Candidate(call[1]), current_model)
                             THEN Candidate(call[1]) ELSE current_model
         /\ call' = [call EXCEPT ![1] = Answered(call[1], o, "ok", TRUE),
                                 ![2] = Answered(call[2], o, "ok", TRUE)]
    /\ UNCHANGED << BACKUP_MODELS, ncalls, prev, logVars, storeVars, opVars >>

\* lines 144-222: the candidate of both runs fails, in the second run with
\* a timeout where the first was answered a retryable error
BothFail ==
    /\ call[1].pc = "loop"
    /\ call[2].pc = "loop"
    /\ \E o \in ProviderOutcomes, replace \in BOOLEAN :
         /\ ~Success(o)
         /\ replace => RetryableError(o)
         /\ call' = [call EXCEPT
                       ![1] = AfterFailure(call[1], o),
                       ![2] = [AfterFailure(call[2], IF replace THEN Timeout ELSE o)
                                 EXCEPT !.replaced = call[2].replaced \/ replace]]
    /\ UNCHANGED << BACKUP_MODELS, current_model, ncalls, prev, logVars, storeVars, opVars >>

\* a run that ended while the other goes on waits for it; both return
ReturnBoth ==
    /\ call[1].pc = "done"
    /\ call[2].pc = "done"
    /\ prev' = IF call[1].ret.kind = "success" /\ call[1].i > 0
               THEN Candidate(call[1]) ELSE ""
    /\ call' = [call EXCEPT ![1] = IdleCall, ![2] = IdleCall]
    /\ UNCHANGED << BACKUP_MODELS, current_model, ncalls, logVars, storeVars, opVars >>

NextTimeout ==
    \/ GenerateBoth
    \/ BothSucceed
    \/ BothFail
    \/ ReturnBoth

SpecTimeout == InitClassify /\ [][NextTimeout]_vars

(***************************************************************************)
(* The conversations collection under the calls of both handlers.  The     *)
(* session_id-keyed handler (src/mongodb_handler.py) is connected and has  *)
(* created its session_id index (lines 81-104); the user_id-keyed handler  *)
(* (src/src/database/mongodb_handler.py) connects to the same collection   *)
(* later.  Each thread runs one call at a time; the steps of a call are    *)
(* the commands it sends to the server, and the commands of different      *)
(* threads interleave.  The server applies every command (no outage).      *)
(***************************************************************************)
LegacyIndexes ==
    { << SessionIdx >>, << SessionIdx, UserIdx >>, << UserIdx, SessionIdx >> }

InitDatabase ==
    /\ InitBot
    /\ BACKUP_MODELS = ShippedBackups
    /\ \E idx \in LegacyIndexes : InitStore(idx)
    /\ ENABLE_MONGODB = TRUE
    /\ ENABLE_FILE_LOGS = FALSE
    /\ connected = TRUE

UNCHANGED_Bot ==
    UNCHANGED << BACKUP_MODELS, current_model, call, ncalls, prev,
                 logVars, files >>

StoredExchange == Exchange("Hi", StoredResponse, PRIMARY_MODEL, now)

Finished(o, ok) == [o EXCEPT !.pc = "done", !.ret = IF ok THEN "True" ELSE "False"]

Record(key, ex, ok) ==
    IF ok THEN [appended EXCEPT ![key] = Append(@, ex)] ELSE appended

\* src/src/database/mongodb_handler.py 72-96 and 98-126: connect, then
\* _setup_collections
UserConnect ==
    /\ ~userConnected
    /\ userConnected' = TRUE
    /\ indexes' = EnsureUniqueUserIndex(indexes, conversations)
    /\ formIndexes' = EnsureUniqueUserIndex(formIndexes, forms)
    /\ UNCHANGED << conversations, now, op, nops, appended, forms >>
    /\ UNCHANGED_Bot

\* src/mongodb_handler.py 115-130: the exchange is built and find_one reads
\* the document of the session
SessionFindOne(t) ==
    /\ op[t].pc = "idle"
    /\ nops < MaxStoreCalls
    /\ \E sid \in Sessions :
        LET k == FindOne(conversations, "session_id", sid) IN
        op' = [op EXCEPT ![t] =
                  [pc |-> "found", kind |-> "session", key |-> sid,
                   found |-> k > 0,
                   total |-> IF k > 0 THEN conversations[k].total_exchanges ELSE 0,
                   ex |-> StoredExchange, data |-> NoFields, ret |-> "none"]]
    /\ nops' = nops + 1
    /\ now' = now + 1
    /\ UNCHANGED << conversations, indexes, userConnected, appended, formVars >>
    /\ UNCHANGED_Bot

\* src/mongodb_handler.py 132-169: update_one on the session's document
\* when find_one returned one, insert_one otherwise; an insert a unique
\* index refuses raises, and line 167 returns False
SessionWrite(t) ==
    LET o == op[t]
        k == FindOne(conversations, "session_id", o.key)
        doc == NewDocument("session_id", o.key, o.ex, o.ex.timestamp)
        ok == o.found \/ ~DuplicateKey(conversations, indexes, doc)
    IN  /\ o.pc = "found"
        /\ conversations' =
              IF o.found
              THEN UpdateSetTotal(conversations, k, o.ex, o.ex.timestamp, o.total + 1)
              ELSE IF ok
                   THEN InsertOne(conversations, "session_id", o.key, o.ex, o.ex.timestamp)
                   ELSE conversations
        /\ op' = [op EXCEPT ![t] = Finished(o, ok)]
        /\ appended' = Record(o.key, o.ex, ok)
        /\ UNCHANGED << indexes, userConnected, now, nops, formVars >>
        /\ UNCHANGED_Bot

\* src/src/database/mongodb_handler.py 197-234: update_one with upsert
\* reaches the server, which updates the document of the user, or finds
\* none and goes on to insert one
UserUpsert(t) ==
    /\ op[t].pc = "idle"
    /\ nops < MaxStoreCalls
    /\ userConnected
    /\ \E uid \in Users :
        LET k == FindOne(conversations, "user_id", uid)
            ex == StoredExchange
            o == [pc |-> "insert", kind |-> "user", key |-> uid, found |-> k > 0,
                  total |-> 0, ex |-> ex, data |-> NoFields, ret |-> "none"]
        IN  /\ conversations' =
                  IF k > 0 THEN UpdatePushInc(conversations, k, ex, now)
                  ELSE conversations
            /\ op' = [op EXCEPT ![t] = IF k > 0 THEN Finished(o, TRUE) ELSE o]
            /\ appended' = Record(uid, ex, k > 0)
    /\ nops' = nops + 1
    /\ now' = now + 1
    /\ UNCHANGED << indexes, userConnected, formVars >>
    /\ UNCHANGED_Bot

\* the insert of an upsert that found no document.  A document of the user
\* that another upsert inserted in between is a duplicate key under a
\* unique index on user_id, and the server then applies the update to that
\* document; with no such index the server inserts a second document.  A
\* duplicate under another unique index raises, and line 245 returns False.
UserInsert(t) ==
    LET o == op[t]
        k == FindOne(conversations, "user_id", o.key)
        doc == NewDocument("user_id", o.key, o.ex, o.ex.timestamp)
        retry == k > 0 /\ HasUniqueIndex(indexes, "user_id")
        ok == retry \/ ~DuplicateKey(conversations, indexes, doc)
    IN  /\ o.pc = "insert"
        /\ conversations' =
              IF retry THEN UpdatePushInc(conversations, k, o.ex, o.ex.timestamp)
              ELSE IF ok
                   THEN InsertOne(conversations, "user_id", o.key, o.ex, o.ex.timestamp)
                   ELSE conversations
        /\ op' = [op EXCEPT ![t] = Finished(o, ok)]
        /\ appended' = Record(o.key, o.ex, ok)
        /\ UNCHANGED << indexes, userConnected, now, nops, formVars >>
        /\ UNCHANGED_Bot

\* the call returns to its caller
StoreReturn(t) ==
    /\ op[t].pc = "done"
    /\ op' = [op EXCEPT ![t] = IdleOp]
    /\ UNCHANGED << conversations, indexes, userConnected, now, nops, appended,
                    formVars >>
    /\ UNCHANGED_Bot

StoreStep(t) ==
    \/ SessionFindOne(t)
    \/ SessionWrite(t)
    \/ UserUpsert(t)
    \/ UserInsert(t)
    \/ StoreReturn(t)

\* calls of several threads, interleaved
NextStore == UserConnect \/ \E t \in Threads : StoreStep(t)

SpecStore == InitDatabase /\ [][NextStore]_vars

\* calls one after the other, each started when the one before has returned
NextStoreSeq == UserConnect \/ StoreStep(1)

SpecStoreSeq == InitDatabase /\ [][NextStoreSeq]_vars

(***************************************************************************)
(* save_form_submission of the two handlers (src/mongodb_handler.py        *)
(* 171-221, src/src/database/mongodb_handler.py 249-309) on the forms      *)
(* collection.  A payload names some of the keys a and b, and may carry a  *)
(* user_id or a session_id entry; the payloads of the session_id-keyed     *)
(* handler carry no user_id.                                               *)
(***************************************************************************)
Payload(a, b, user_id, session_id) ==
    [f \in FormKeys |->
        CASE f = "a" -> a [] f = "b" -> b [] f = "user_id" -> user_id
          [] OTHER -> session_id]

Payloads ==
    { Payload("1", Absent, Absent, Absent),
      Payload(Absent, "2", Absent, "session-2"),
      Payload("2", Absent, "user-2", Absent) }

PayloadsOf(key) ==
    IF key \in Users THEN Payloads ELSE { d \in Payloads : d["user_id"] = Absent }

Names(data) == { f \in FormKeys : data[f] # Absent }

\* data_to_update.pop(key, None), for each key of keys
Pop(data, keys) == [f \in FormKeys |-> IF f \in keys THEN Absent ELSE data[f]]

\* as Stripped, with nothing popped
StrippedNothing(kf, data) == data

\* lines 267-270 (both user_id and session_id are popped); 185 of the
\* session_id-keyed handler (session_id only)
Stripped(kf, data) ==
    IF kf = "user_id" THEN Pop(data, {"user_id", "session_id"})
    ELSE Pop(data, {"session_id"})

\* as SetFields, with the fields of the document replaced by the payload
SetFieldsReplacing(fields, data) == data

\* $set: the keys the payload names get its values, the others keep theirs
SetFields(fields, data) ==
    [f \in FormKeys |-> IF data[f] # Absent THEN data[f] ELSE fields[f]]

\* line 273: the user_id-keyed handler adds submission_timestamp
SubmissionTimestamp(kf, old, ts) == IF kf = "user_id" THEN ts ELSE old

\* update_one on the document found: $set of the payload and last_updated
FormUpdate(coll, k, data, ts) ==
    [coll EXCEPT ![k] =
        [@ EXCEPT !.fields = SetFields(@, Stripped(coll[k].kf, data)),
                  !.last_updated = ts,
                  !.submission_timestamp = SubmissionTimestamp(coll[k].kf, @, ts)]]

\* the document an upsert inserts: $set and $setOnInsert
NewFormDocument(kf, key, data, ts) ==
    [kf |-> kf, key |-> key, created_at |-> ts, last_updated |-> ts,
     submission_timestamp |-> SubmissionTimestamp(kf, 0, ts),
     fields |-> SetFields(NoFields, Stripped(kf, data))]

\* update_one with upsert reaches the server, which updates the document of
\* the key, or finds none and goes on to insert one
FormUpsert(t) ==
    /\ op[t].pc = "idle"
    /\ nops < MaxStoreCalls
    /\ \E key \in StoreKeys :
        /\ key \in Users => userConnected
        /\ \E data \in PayloadsOf(key) :
            LET k == FindOne(forms, KeyField(key), key)
                o == [pc |-> "forminsert", kind |-> "form", key |-> key,
                      found |-> k > 0, total |-> 0,
                      ex |-> Exchange("", StoredResponse, "", now),
                      data |-> data, ret |-> "none"]
            IN  /\ forms' = IF k > 0 THEN FormUpdate(forms, k, data, now) ELSE forms
                /\ op' = [op EXCEPT ![t] = IF k > 0 THEN Finished(o, TRUE) ELSE o]
    /\ nops' = nops + 1
    /\ now' = now + 1
    /\ UNCHANGED << conversations, indexes, userConnected, appended, formIndexes >>
    /\ UNCHANGED_Bot

\* the insert of an upsert that found no document; see UserInsert
FormInsert(t) ==
    LET o == op[t]
        kf == KeyField(o.key)
        k == FindOne(forms, kf, o.key)
        doc == NewFormDocument(kf, o.key, o.data, o.ex.timestamp)
        retry == k > 0 /\ HasUniqueIndex(formIndexes, kf)
        ok == retry \/ ~DuplicateKey(forms, formIndexes, doc)
    IN  /\ o.pc = "forminsert"
        /\ forms' =
              IF retry THEN FormUpdate(forms, k, o.data, o.ex.timestamp)
              ELSE IF ok THEN Append(forms, doc)
              ELSE forms
        /\ op' = [op EXCEPT ![t] = Finished(o, ok)]
        /\ UNCHANGED << conversations, indexes, userConnected, appended, formIndexes,
                        now, nops >>
        /\ UNCHANGED_Bot

FormStep(t) ==
    \/ FormUpsert(t)
    \/ FormInsert(t)
    \/ StoreReturn(t)

\* form calls of several threads, interleaved
NextForms == UserConnect \/ \E t \in Threads : FormStep(t)

SpecForms == InitDatabase /\ [][NextForms]_vars

\* form calls one after the other
NextFormsSeq == UserConnect \/ FormStep(1)

SpecFormsSeq == InitDatabase /\ [][NextFormsSeq]_vars

(***************************************************************************)
(* The study handlers of src/src/study/handlers.py, which all go through   *)
(* the one ConversationLogger of the process (src/src/core/conversation.py *)
(* 360).  The session id of a participant is the user_id of their          *)
(* records.  A handler call is one step here: the calls of two             *)
(* participants alternate but do not overlap.  In a payload, a stands for  *)
(* the answer of a form page and b for a chat question, each holding the   *)
(* participant who gave it.  The bot these handlers call, core/chatbot.py, *)
(* is not part of src/: its reply is StoredResponse.                       *)
(***************************************************************************)
\* no user_id argument
None == "None"

\* conversation.py 196-202: the user_id a submission is stored under, and
\* the user_id of the logger afterwards
UserIdToUse(arg, logger) == IF arg # None THEN arg ELSE logger

LoggerAfterSubmission(arg, logger) ==
    IF arg # None /\ arg # logger THEN arg ELSE logger

\* src/src/database/mongodb_handler.py 290-294: update_one with upsert, with
\* no other command in between
UpsertForm(coll, idx, key, data, ts) ==
    LET k == FindOne(coll, "user_id", key)
        doc == NewFormDocument("user_id", key, data, ts)
    IN  IF k > 0 THEN FormUpdate(coll, k, data, ts)
        ELSE IF DuplicateKey(coll, idx, doc) THEN coll
        ELSE Append(coll, doc)

\* src/src/database/mongodb_handler.py 221-234, likewise
UpsertConversation(coll, idx, key, ex, ts) ==
    LET k == FindOne(coll, "user_id", key)
        doc == NewDocument("user_id", key, ex, ts)
    IN  IF k > 0 THEN UpdatePushInc(coll, k, ex, ts)
        ELSE IF DuplicateKey(coll, idx, doc) THEN coll
        ELSE Append(coll, doc)

\* conversation.py 176-235, ConversationLogger.save_form_submission called
\* with a payload and a user_id argument after the logger's user_id has
\* become logger
SaveFormSubmission(data, arg, logger) ==
    /\ forms' = UpsertForm(forms, formIndexes, UserIdToUse(arg, logger), data, now)
    /\ logger_user_id' = LoggerAfterSubmission(arg, logger)
    /\ now' = now + 1

\* the sections the handlers hide and show (their gr.update(visible=...)
\* return values): the page the participant is on afterwards
Shows(p, page) == ui' = [ui EXCEPT ![p].page = page]

\* handlers.py 209-212 and 233, 262-265 and 290, 315-319 and 345: the
\* history, the counter and the next button after a chat turn
AfterTurn(pg, message, response) ==
    [pg EXCEPT !.history = @ \o << Msg("user", Content("", message, Len(@) + 1)),
                                  Msg("assistant", Content("", response, Len(@) + 2)) >>,
               !.question_count = @ + 1,
               !.next = (pg.question_count + 1 >= MINIMUM_QUESTIONS)]

UNCHANGED_ByForms ==
    UNCHANGED << BACKUP_MODELS, current_model, call, ncalls, prev, settingVars,
                 files, indexes, userConnected, op, appended, formIndexes >>

\* the event of a participant who is on the page that has the control
HandlerStarts(p, page) ==
    /\ userConnected
    /\ nops < MaxHandlerCalls
    /\ ui[p].page = page
    /\ nops' = nops + 1

\* handlers.py 124-152, save_consent: set_user_id, then, consent given, the
\* submission, with no user_id argument
SaveConsent(p) ==
    /\ HandlerStarts(p, "consent")
    /\ \E consents \in BOOLEAN :
         IF consents
         THEN /\ SaveFormSubmission(Payload(p, Absent, p, Absent), None, p)
              /\ Shows(p, "selection")
         ELSE /\ logger_user_id' = p
              /\ UNCHANGED << forms, now, ui >>
    /\ UNCHANGED conversations
    /\ UNCHANGED_ByForms

\* handlers.py 73-94, save_chatbot_selection
SaveChatbotSelection(p) ==
    /\ HandlerStarts(p, "selection")
    /\ SaveFormSubmission(Payload(p, Absent, p, Absent), p, p)
    /\ Shows(p, "demographics")
    /\ UNCHANGED conversations
    /\ UNCHANGED_ByForms

\* handlers.py 97-121, save_demographics
SaveDemographics(p) ==
    /\ HandlerStarts(p, "demographics")
    /\ SaveFormSubmission(Payload(p, Absent, p, Absent), p, p)
    /\ Shows(p, "chat")
    /\ UNCHANGED conversations
    /\ UNCHANGED_ByForms

\* handlers.py 179-235, 238-293, 296-348: handle_chatbot_message,
\* handle_predefined_question and handle_follow_up_question log the
\* interaction with no user_id argument (lines 219, 276, 331) and the
\* exchange with user_id=session_id
HandleQuestion(p) ==
    /\ HandlerStarts(p, "chat")
    /\ SaveFormSubmission(Payload(Absent, p, Absent, p), None, logger_user_id)
    /\ conversations' = UpsertConversation(conversations, indexes, p,
                                           Exchange(p, StoredResponse, "", now), now)
    /\ ui' = [ui EXCEPT ![p] = AfterTurn(@, p, StoredResponse)]
    /\ UNCHANGED_ByForms

\* handlers.py 181-182, handle_chatbot_message with a blank message: the
\* history and the counter as they were, the next button gr.update(visible=False)
HandleBlankMessage(p) ==
    /\ HandlerStarts(p, "chat")
    /\ ui' = [ui EXCEPT ![p].next = FALSE]
    /\ UNCHANGED << conversations, forms, now, logger_user_id >>
    /\ UNCHANGED_ByForms

\* handlers.py 298-299, handle_follow_up_question with a blank message: the
\* history and the counter as they were, the next button gr.update()
HandleBlankFollowUp(p) ==
    /\ HandlerStarts(p, "chat")
    /\ UNCHANGED << ui, conversations, forms, now, logger_user_id >>
    /\ UNCHANGED_ByForms

\* handlers.py 350-357, proceed_to_feedback, of the next button
ProceedToFeedback(p) ==
    /\ HandlerStarts(p, "chat")
    /\ ui[p].next
    /\ Shows(p, "feedback")
    /\ UNCHANGED << conversations, forms, now, logger_user_id >>
    /\ UNCHANGED_ByForms

\* handlers.py 387-414, submit_study: log_feedback(feedback_data, session_id)
SubmitStudy(p) ==
    /\ HandlerStarts(p, "feedback")
    /\ SaveFormSubmission(Payload(p, Absent, p, Absent), p, logger_user_id)
    /\ Shows(p, "thanks")
    /\ UNCHANGED conversations
    /\ UNCHANGED_ByForms

\* a database that holds nothing yet, with the bot and the logger of the
\* shipped configuration
InitStudy ==
    /\ InitBot
    /\ BACKUP_MODELS = ShippedBackups
    /\ InitStore(<< >>)
    /\ ENABLE_MONGODB = TRUE
    /\ ENABLE_FILE_LOGS = FALSE
    /\ connected = TRUE

NextStudy ==
    \/ UserConnect
    \/ \E p \in Users :
         \/ SaveConsent(p)
         \/ SaveChatbotSelection(p)
         \/ SaveDemographics(p)
         \/ HandleQuestion(p)
         \/ HandleBlankMessage(p)
         \/ HandleBlankFollowUp(p)
         \/ ProceedToFeedback(p)
         \/ SubmitStudy(p)

SpecStudy == InitStudy /\ [][NextStudy]_vars

(***************************************************************************)
(* Properties of generate_openrouter_response, under Spec.                 *)
(***************************************************************************)
Done(c) == c.pc = "done"

\* the response is a 200 that carries a text
TextResponse(o) ==
    Success(o) /\ ExtractText(o).type = "str" /\ ExtractText(o).body # ""

\* the requests of the call are the first candidates of its list, in order
InListOrder(c) == c.reqs = SubSeq(c.models_to_try, 1, Len(c.reqs))

\* C1 (fallback ordering): when the first K candidates of a call answer 429
\* and candidate K+1 answers 200 with a text, the call requested exactly
\* candidates 1..K+1 in list order, returns that text, and the pointer is
\* candidate K+1; a 429 ends a call only on its last candidate.
C1_FallbackOrdering ==
    \A t \in Threads :
        LET c == call[t]
            K == Len(c.reqs) - 1
        IN  /\ (Done(c) /\ c.last.kind = "http" /\ c.last.status = 429)
                  => Len(c.reqs) = Candidates(c)
            /\ (Done(c) /\ c.fails429 /\ TextResponse(c.last))
                  => /\ InListOrder(c)
                     /\ K < Candidates(c)
                     /\ c.ret.kind = "success"
                     /\ c.ret.type = "str"
                     /\ c.ret.body = ExtractText(c.last).body
                     /\ current_model = c.models_to_try[K + 1]

\* four 429 answers, then a text from the last shipped backup
C1_Witness ==
    \E t \in Threads :
        /\ Done(call[t]) /\ call[t].fails429 /\ TextResponse(call[t].last)
        /\ Len(call[t].reqs) = 5
        /\ current_model = ShippedBackups[4]

\* C2 (terminal short-circuit): once a candidate of a call, the first or a
\* later one, has answered with a terminal response, the call is over: it
\* returned the terminal-error text on that response, requested no further
\* candidate, and the pointer is what it was when the call began.
C2_TerminalShortCircuit ==
    \A t \in Threads :
        LET c == call[t] IN
        c.sawTerminal
            => /\ Done(c)
               /\ TerminalResponse(c.last)
               /\ c.ret = [kind |-> "error", type |-> "str", notice |-> "", body |-> MsgTerminal]
               /\ Len(c.reqs) = c.i + 1
               /\ InListOrder(c)
               /\ current_model = c.ptr0

\* a terminal response from a candidate that is neither the first nor the last
C2_Witness ==
    \E t \in Threads :
        /\ call[t].sawTerminal /\ Done(call[t])
        /\ call[t].i >= 1
        /\ call[t].i + 1 < Candidates(call[t])

\* every candidate of the call was requested and answered 503
AllReturned503(c) ==
    /\ Done(c)
    /\ c.fails503
    /\ c.last.kind = "http" /\ c.last.status = 503
    /\ Len(c.reqs) = Candidates(c)

\* C3 as stated (exhaustion): if every one of the N candidates returns 503,
\* the call returns the 'All language models are currently experiencing
\* issues' message and the pointer is unchanged.
C3_AsStated ==
    \A t \in Threads :
        AllReturned503(call[t])
            => /\ call[t].ret.body = MsgAllIssues
               /\ current_model = call[t].ptr0

\* C3 as amended (exhaustion): if every one of the N candidates returns 503,
\* the pointer is unchanged and the call returns an error text: for a last
\* body that is a structured error (or empty), the 'technical difficulties
\* with all available AI models' text when N >= 2 and the 'All language
\* models are currently experiencing issues' text when N = 1; the 'trouble
\* connecting' text for a last body that is not JSON; the apology for one
\* that is JSON of another shape.
C3_Exhaustion ==
    \A t \in Threads :
        LET c == call[t] IN
        AllReturned503(c)
            => /\ current_model = c.ptr0
               /\ InListOrder(c)
               /\ c.ret.kind = "error"
               /\ c.ret.body = CASE c.last.err = "notjson" -> MsgConnTrouble
                                 [] c.last.err = "badshape" -> MsgApology
                                 [] Candidates(c) >= 2 -> MsgAllDegraded
                                 [] OTHER -> MsgAllIssues

\* the shipped five candidates, all answering 503 with a structured error
C3_Witness ==
    \E t \in Threads :
        /\ AllReturned503(call[t])
        /\ Candidates(call[t]) = 5
        /\ call[t].last.err = "nomatch"
        /\ call[t].ret.body = MsgAllDegraded

\* C4 (sticky fallback): a call that succeeds on a candidate other than the
\* first one it tried leaves the pointer on that candidate and returns the
\* notice naming it followed by the model's text; and the next call sends
\* its first request to that candidate.
C4_StickyFallback ==
    \A t \in Threads :
        LET c == call[t] IN
        /\ (Done(c) /\ c.ret.kind = "success" /\ c.i > 0)
              => /\ current_model = Candidate(c)
                 /\ c.ret.notice = ModelDisplayName(Candidate(c))
                 /\ c.ret.notice \notin {"", "?"}
                 /\ c.ret.type = "str"
                 /\ c.ret.body = AssistantResponse(ExtractText(c.last)).body
        /\ (prev # "" /\ Len(c.reqs) >= 1) => c.reqs[1] = prev

\* the call after a switch to the second shipped backup has made a request
C4_Witness ==
    \E t \in Threads :
        /\ prev = ShippedBackups[2]
        /\ Len(call[t].reqs) >= 1
        /\ call[t].reqs[1] = prev

\* C5 as stated (termination): every call ends with a string returned, each
\* candidate requested at most once, at most N requests made.
C5_AsStated ==
    \A t \in Threads :
        LET c == call[t] IN
        Done(c)
            => /\ c.ret.kind \in {"success", "error"}
               /\ c.ret.type = "str"
               /\ Len(c.reqs) <= Candidates(c)
               /\ \A j, k \in 1..Len(c.reqs) : j # k => c.reqs[j] # c.reqs[k]

\* C6 as stated (one exchange per call): a call that has ended, in success,
\* in a terminal error or in exhaustion, handed exactly one exchange to the
\* conversation logger.
C6_AsStated ==
    \A t \in Threads : Done(call[t]) => call[t].logs = 1

\* what the caller gets of a call whose exchange the database did not store
KeepsTheSuccess(c) ==
    /\ Done(c)
    /\ c.ret.kind = "success"
    /\ c.ret.body = AssistantResponse(ExtractText(c.last)).body
    /\ Len(c.reqs) = c.i + 1
    /\ current_model = IF c.i > 0 THEN Candidate(c) ELSE c.ptr0

\* C7 as stated (best-effort persistence): when the store is disconnected,
\* rejects the write or raises, log_conversation returns False without
\* raising, and the call returns the text of the candidate that succeeded,
\* with no further request and the pointer update kept.
C7_AsStated ==
    \A t \in Threads :
        call[t].logFailed => KeepsTheSuccess(call[t]) /\ call[t].logRet = "False"

\* C7 as amended: in that case log_conversation does not raise and returns
\* False, or True when the file backup is enabled and the exchange was
\* written to it; the rest as stated.
C7_BestEffortPersistence ==
    \A t \in Threads :
        call[t].logFailed
            => /\ KeepsTheSuccess(call[t])
               /\ call[t].logRet = IF call[t].logFile THEN "True" ELSE "False"

\* a fallback succeeded, the database raised, nothing was stored
C7_Witness ==
    \E t \in Threads :
        /\ call[t].logFailed /\ Done(call[t])
        /\ call[t].i > 0
        /\ call[t].logRet = "False"
        /\ conversations = << >>

(***************************************************************************)
(* Properties of the two log_conversation handlers, under SpecStore        *)
(* (interleaved calls) and SpecStoreSeq (calls one after the other).       *)
(***************************************************************************)
Records(key) == Matching(conversations, KeyField(key), key)

CountsItsHistory(k) ==
    conversations[k].total_exchanges = Len(conversations[k].conversation_history)

InHistory(ex, k) ==
    \E j \in 1..Len(conversations[k].conversation_history) :
        conversations[k].conversation_history[j] = ex

\* C8 as stated (concurrent appends, user_id-keyed handler): under any
\* interleaving of log_conversation calls for one user_id there is at most
\* one record of that user_id, its total_exchanges is the length of its
\* history, and every call that has finished returned True and has its
\* exchange in the history of the record.
C8_AsStated ==
    \A u \in Users :
        /\ Cardinality(Records(u)) <= 1
        /\ \A k \in Records(u) : CountsItsHistory(k)
        /\ \A t \in Threads :
              (op[t].pc = "done" /\ op[t].key = u)
                  => /\ op[t].ret = "True"
                     /\ \E k \in Records(u) : InHistory(op[t].ex, k)

\* C9 as stated (atomic append, session_id-keyed handler): under any
\* interleaving of log_conversation calls for one session_id no second
\* document of that session_id is created, and total_exchanges is always
\* the length of conversation_history.
C9_AsStated ==
    \A sid \in Sessions :
        /\ Cardinality(Records(sid)) <= 1
        /\ \A k \in Records(sid) : CountsItsHistory(k)

\* the timestamps of the exchanges grow: the exchanges are in call order
InCallOrder(history) ==
    \A j \in 1..Len(history) - 1 : history[j].timestamp < history[j + 1].timestamp

\* C10 (append-only history): after calls made one after the other, a
\* participant whose calls returned True has exactly one record; its
\* history is the exchanges of those calls, unchanged and in call order,
\* total_exchanges is their number, and the record keeps its key and the
\* created_at of the first call.
C10_AppendOnlyHistory ==
    \A key \in StoreKeys :
        appended[key] # << >>
            => /\ Cardinality(Records(key)) = 1
               /\ \A k \in Records(key) :
                    /\ conversations[k].conversation_history = appended[key]
                    /\ conversations[k].total_exchanges = Len(appended[key])
                    /\ conversations[k].created_at = appended[key][1].timestamp
                    /\ InCallOrder(conversations[k].conversation_history)

\* a session and a user have each made two calls that returned True
C10_Witness ==
    \E sid \in Sessions, u \in Users :
        /\ Len(appended[sid]) >= 2
        /\ Len(appended[u]) >= 2
        /\ \A t \in Threads : op[t].pc = "idle"

(***************************************************************************)
(* Properties of the read path, under Spec.                                *)
(***************************************************************************)
\* the record the read path returns at position j is the exchange ex
ReturnedAt(read, j, ex) ==
    /\ j <= Len(read)
    /\ read[j].user_input = ex.user_message
    /\ read[j].bot_response = ex.bot_response
    /\ read[j].timestamp = Isoformat(ex.timestamp)

\* C11 as stated (round trip): the read path of the participant returns
\* every exchange that log_conversation stored for it, in the same order,
\* with the message, the response and the timestamp it was written with.
C11_AsStated ==
    \A k \in Matching(conversations, "session_id", SessionId) :
        \A j \in 1..Len(conversations[k].conversation_history) :
            ReturnedAt(GetSessionConversations(files, SessionId), j,
                       conversations[k].conversation_history[j])

(***************************************************************************)
(* Properties of save_form_submission, under SpecFormsSeq (calls one after *)
(* the other) and SpecForms (interleaved calls).                           *)
(***************************************************************************)
FormRecords(key) == Matching(forms, KeyField(key), key)

\* the step writes the forms collection for the call o of thread 1
Saves(o) == forms' # forms /\ o = op'[1] /\ o.pc = "done"

\* the form keys a call may change: those its payload names
OnlyNamedKeysChange(o) ==
    \A k \in 1..Len(forms) :
        /\ forms'[k].kf = forms[k].kf
        /\ forms'[k].key = forms[k].key
        /\ \A f \in FormKeys \ Names(o.data) : forms'[k].fields[f] = forms[k].fields[f]
        /\ k \notin FormRecords(o.key) => forms'[k] = forms[k]

\* the record of the call's key has the values of the payload
PayloadIsStored(o) ==
    \A k \in Matching(forms', KeyField(o.key), o.key) :
        \A f \in Names(o.data) \cap {"a", "b"} : forms'[k].fields[f] = o.data[f]

\* C12 (form merge without clobber): with calls one after the other there
\* is at most one FormRecord per participant, and each call changes only
\* the keys its payload names (and the timestamps) and leaves every other
\* field and every other record as it was; so {a: 1} followed by {b: 2}
\* leaves one record with a = 1 and b = 2.
C12_FormMerge ==
    /\ [](\A key \in StoreKeys : Cardinality(FormRecords(key)) <= 1)
    /\ [][Saves(op'[1]) => OnlyNamedKeysChange(op'[1]) /\ PayloadIsStored(op'[1])]_vars

\* a user's record and a session's record hold a = 1 and b = 2
C12_Witness ==
    \E u \in Users, sid \in Sessions :
        /\ \E k \in FormRecords(u) :
              forms[k].fields["a"] = "1" /\ forms[k].fields["b"] = "2"
        /\ \E k \in FormRecords(sid) :
              forms[k].fields["a"] = "1" /\ forms[k].fields["b"] = "2"

\* C13 (FormRecord key and timestamps, user_id-keyed handler): no step
\* changes the created_at of a record; a call for a user returns True and
\* leaves one record of that user whose last_updated is the time of the
\* call, whose created_at is that time when the call created it, and which
\* holds no user_id or session_id entry of the payload as a field.
C13_KeyAndTimestamps ==
    [][/\ \A k \in 1..Len(forms) : forms'[k].created_at = forms[k].created_at
       /\ (Saves(op'[1]) /\ op'[1].key \in Users)
            => /\ op'[1].ret = "True"
               /\ Cardinality(Matching(forms', "user_id", op'[1].key)) = 1
               /\ \A k \in Matching(forms', "user_id", op'[1].key) :
                    /\ forms'[k].last_updated = op'[1].ex.timestamp
                    /\ k > Len(forms) => forms'[k].created_at = op'[1].ex.timestamp
                    /\ forms'[k].fields["user_id"] = Absent
                    /\ forms'[k].fields["session_id"] = Absent]_vars

\* the record of user-1 was written by a payload that carries the user_id
\* of user-2, after an earlier call had created it
C13_Witness ==
    /\ op[1].pc = "done" /\ op[1].key = "user-1" /\ op[1].found
    /\ op[1].data["user_id"] = "user-2"
    /\ \E k \in FormRecords("user-1") :
          forms[k].fields["a"] = "2" /\ forms[k].created_at < forms[k].last_updated

\* C14 as stated (concurrent form upserts, user_id-keyed handler): under any
\* interleaving of save_form_submission calls for one user there is at most
\* one FormRecord of that user, and every call that has finished returned
\* True and has the fields of its payload in the record.
C14_AsStated ==
    \A u \in Users :
        /\ Cardinality(FormRecords(u)) <= 1
        /\ \A t \in Threads :
              (op[t].pc = "done" /\ op[t].kind = "form" /\ op[t].key = u)
                  => /\ op[t].ret = "True"
                     /\ \E k \in FormRecords(u) :
                           \A f \in Names(op[t].data) \cap {"a", "b"} :
                               forms[k].fields[f] # Absent

(***************************************************************************)
(* Properties of the outbound request, under SpecCompose.                  *)
(***************************************************************************)
\* the call has sent a request
HasRequested(c) == c.reqs # << >>

\* what the list carries between its first and its last message
Middle(messages) == SubSeq(messages, 2, Len(messages) - 1)

\* the messages of the history that are among its last HistoryLimit
IsRecent(history, m) ==
    \E k \in 1..Len(history) : history[k] = m /\ k > Len(history) - HistoryLimit

InOriginalOrder(ms) ==
    \A j \in 1..Len(ms) - 1 : ms[j].content.turn < ms[j + 1].content.turn

StartsAndEnds(c) ==
    /\ Len(c.messages) >= 2
    /\ c.messages[1] = Msg("system", Content("", SystemPrompt(c.lang), 0))
    /\ c.messages[Len(c.messages)].role = "user"
    /\ c.messages[Len(c.messages)].content.text = c.message

StructuredErrors ==
    {"empty", "nomatch", "ratelimited", "noinstances", "providererror", "mixedcase"}

\* the bodies whose message contains one of the three phrases, in any case
PhraseInMessage == {"ratelimited", "noinstances", "providererror", "mixedcase"}

\* the table of the claim
ClassifiedRetry(status, err) ==
    \/ status \in {429, 503}
    \/ status >= 500
    \/ err \in PhraseInMessage
    \/ err \notin StructuredErrors

\* the last response of the call is a non-200 response
AnsweredError(c) ==
    HasRequested(c) /\ c.last.kind = "http" /\ c.last.status # 200

\* the call went on to the next candidate, or ended as exhausted on its last
TreatedAsRetry(c) ==
    \/ c.pc = "loop" /\ c.i = Len(c.reqs)
    \/ /\ Done(c) /\ Len(c.reqs) = Candidates(c)
       /\ c.ret.kind = "error" /\ c.ret.body # MsgTerminal

\* the call ended at once with the terminal message
TreatedAsTerminal(c) ==
    Done(c) /\ c.ret.kind = "error" /\ c.ret.body = MsgTerminal /\ Len(c.reqs) = c.i + 1

\* C17 (fallback classification table): a non-200 response is treated as
\* RETRY exactly when its status is 429, 503 or at least 500, or its message
\* contains one of the three phrases in any case, or its body is not a
\* structured error, and as TERMINAL otherwise, at every position of the
\* list and after any earlier attempts.
C17_ClassificationTable ==
    \A t \in Threads :
        AnsweredError(call[t])
            => IF ClassifiedRetry(call[t].last.status, call[t].last.err)
               THEN TreatedAsRetry(call[t]) /\ ~TreatedAsTerminal(call[t])
               ELSE TreatedAsTerminal(call[t]) /\ ~TreatedAsRetry(call[t])

\* the third candidate of a call answered 403 with a structured error that
\* matches no phrase, after two retryable answers
C17_Witness ==
    \E t \in Threads :
        /\ AnsweredError(call[t])
        /\ call[t].last.status = 403 /\ call[t].last.err = "nomatch"
        /\ Len(call[t].reqs) = 3 /\ Candidates(call[t]) > 3
        /\ TreatedAsTerminal(call[t])

(***************************************************************************)
(* C18: timeouts and retryable errors, under SpecTimeout.                  *)
(***************************************************************************)
\* the active-model pointer a run leaves behind
PointerAfter(c) ==
    IF c.ret.kind = "success" /\ c.i > 0 THEN Candidate(c) ELSE c.ptr0

BothDone == Done(call[1]) /\ Done(call[2])

SameRequestsAndPointer ==
    /\ call[1].pc = call[2].pc
    /\ call[1].reqs = call[2].reqs
    /\ BothDone => PointerAfter(call[1]) = PointerAfter(call[2])

\* the last candidate was answered a retryable error in the first run and
\* timed out in the second
ReplacedAtLast ==
    /\ BothDone
    /\ RetryableError(call[1].last)
    /\ call[2].last = Timeout
    /\ Len(call[2].reqs) = Candidates(call[2])

RetryableFailure(o) ==
    /\ o.kind # "none"
    /\ ~Success(o)
    /\ ~(o.kind = "http" /\ o.status # 200 /\ ErrorVerdict(o.status, o.err) = "terminal")

\* the last candidate of the call was asked and failed in such a way
FailedAtLast(c) ==
    /\ Done(c)
    /\ c.ret.kind = "error"
    /\ Len(c.reqs) = Candidates(c)
    /\ RetryableFailure(c.last)

\* the first candidate had failed before the last one was asked
FirstHadFailed(c) == Len(c.reqs) >= 2

AllModelsMessage(c) == IF FirstHadFailed(c) THEN MsgAllDegraded ELSE MsgAllIssues

CannedResponses(lang) ==
    IF lang = "de" THEN {MsgUnavailableDe}
    ELSE { fallback_responses[k] : k \in 1..Len(fallback_responses) }

\* the models the exchanges of the collection were stored with
StoredModels ==
    UNION { { conversations[d].conversation_history[k].model_used :
                k \in 1..Len(conversations[d].conversation_history) } :
            d \in 1..Len(conversations) }

AnswersCanned(c) ==
    /\ c.pc # "loop"
    /\ c.reqs = << >>
    /\ Done(c) => /\ c.ret.kind = "fallback"
                  /\ c.ret.type = "str"
                  /\ c.ret.body \in CannedResponses(c.lang)
                  /\ c.logs = 1
                  /\ c.logModel = "fallback"

\* C20 (key-absent mode): a bot constructed without an API key answers
\* every chatbot_response call, in either language, with a canned response
\* (the German notice for 'de', one of the four English texts otherwise),
\* sends no provider request, leaves the active-model pointer alone and
\* passes the exchange to the logger once with model_used 'fallback', so
\* that whatever the database holds of it carries that model; and the mode
\* found at construction never changes.
C20_KeyAbsentMode ==
    /\ [](~openrouter_available =>
            /\ \A t \in Threads : AnswersCanned(call[t])
            /\ current_model = OPENROUTER_MODEL
            /\ prev = ""
            /\ StoredModels \subseteq {"fallback"})
    /\ [][openrouter_available' = openrouter_available]_vars

\* the second call of a bot without a key, in German, its first exchange
\* in the database
C20_Witness ==
    /\ ~openrouter_available
    /\ ncalls = 2
    /\ Done(call[1])
    /\ call[1].lang = "de"
    /\ call[1].ret.body = MsgUnavailableDe
    /\ call[1].logRet = "True"
    /\ StoredModels = {"fallback"}

(***************************************************************************)
(* C21: the body of a 200 response, under SpecParse.                       *)
(***************************************************************************)
Is200(o) == o.kind = "http" /\ o.status = 200

\* text is present under one of the four shapes
TextPresent(o) ==
    /\ o.json = "dict"
    /\ "text" \in {o.choices, o.message, o.response, o.text}

\* none of the four shapes is in the body
NonePresent(o) ==
    \/ o.json # "dict"
    \/ {o.choices, o.message, o.response, o.text} = {"absent"}

\* the first shape present holds an empty text
EmptyText(o) ==
    /\ o.json = "dict"
    /\ \/ o.choices = "blank"
       \/ o.choices = "absent" /\ o.message = "blank"
       \/ o.choices = "absent" /\ o.message = "absent" /\ o.response = "blank"
       \/ /\ o.choices = "absent" /\ o.message = "absent" /\ o.response = "absent"
          /\ o.text = "blank"

Succeeded(c) == Done(c) /\ c.ret.kind = "success"

\* the candidate failed and the next one is tried (none being left, the
\* call returns the apology)
CountedAsFailure(c) ==
    \/ c.pc = "loop" /\ c.i = Len(c.reqs)
    \/ Done(c) /\ Len(c.reqs) = Candidates(c) /\ c.ret.kind = "error"

\* C21 as stated (HTTP-200 body handling): a 200 response is a success
\* whenever text is present under at least one of the four shapes; it is a
\* parse failure, and the next candidate is tried, if none is present; and
\* an empty extracted text gives a success with the clarifying-question
\* string, the pointer switched for a non-first candidate.
C21_AsStated ==
    \A t \in Threads :
        LET c == call[t]
            o == c.last
        IN  Is200(o) =>
                /\ TextPresent(o) => Succeeded(c)
                /\ NonePresent(o) => CountedAsFailure(c)
                /\ EmptyText(o) =>
                      /\ Succeeded(c)
                      /\ c.ret.body = MsgClarify
                      /\ c.i > 0 => current_model = Candidate(c)

(***************************************************************************)
(* C22: the indexes after _setup_collections, under SpecStore.             *)
(***************************************************************************)
\* C22 as stated (index migration): once _setup_collections has run on the
\* connected database, the conversations and the forms collection both
\* carry a unique index on user_id, whatever indexes and documents were
\* there before.
C22_AsStated ==
    userConnected =>
        /\ HasUniqueIndex(indexes, "user_id")
        /\ HasUniqueIndex(formIndexes, "user_id")

(***************************************************************************)
(* C23: the active-model pointer, under SpecChat.                          *)
(***************************************************************************)
ConfiguredModels ==
    {PRIMARY_MODEL} \cup { BACKUP_MODELS[k] : k \in 1..Len(BACKUP_MODELS) }

\* the step is the success of a candidate of call t that is not its first
FallbackSucceeds(t) ==
    /\ call[t].pc = "loop"
    /\ call[t].i > 0
    /\ Done(call'[t])
    /\ call'[t].ret.kind = "success"

\* C23 (active-model pointer invariant): the pointer is the primary model
\* when the bot is created and the primary or a configured backup ever
\* after; a step changes it only if it is the success of a non-first
\* candidate of a call of a bot with a key, which sets it to that
\* candidate: first-candidate successes, terminal errors, exhaustion and
\* key-absent calls leave it as it was.
C23_PointerInvariant ==
    /\ current_model = OPENROUTER_MODEL
    /\ [](current_model \in ConfiguredModels)
    /\ [][/\ current_model' # current_model
              => /\ openrouter_available
                 /\ \E t \in Threads : FallbackSucceeds(t)
          /\ \A t \in Threads :
                FallbackSucceeds(t) => current_model' = Candidate(call[t])]_vars

\* the pointer stands on the first backup after a switch, and the next call
\* has ended with a terminal error
C23_Witness ==
    /\ current_model = ShippedBackups[1]
    /\ ncalls = 2
    /\ Done(call[1])
    /\ call[1].ret.body = MsgTerminal
    /\ call[1].ptr0 = ShippedBackups[1]

(***************************************************************************)
(* C24: calls that share the bot, under SpecShared.                        *)
(***************************************************************************)
\* each candidate of the call's own list at most once, in list order
OwnListOnce(c) ==
    /\ InListOrder(c)
    /\ \A j, k \in 1..Len(c.reqs) : j # k => c.reqs[j] # c.reqs[k]

\* the pointer is what the last successful fallback wrote: a step that is
\* the success of a non-first candidate leaves it on that candidate, and no
\* other step moves it
LastWriterWins ==
    /\ \A t \in Threads :
          FallbackSucceeds(t) => current_model' = Candidate(call[t])
    /\ current_model' # current_model => \E t \in Threads : FallbackSucceeds(t)

\* C24 as stated (last-writer-wins pointer under concurrency): under any
\* interleaving of the calls that share the bot, each call requests each
\* candidate of its own list at most once, in list order, and returns a
\* string, and the pointer is the candidate of the last successful fallback
\* (its initial value if there was none).
C24_AsStated ==
    /\ [](\A t \in Threads :
            /\ OwnListOnce(call[t])
            /\ Done(call[t]) => call[t].ret.type = "str")
    /\ [][LastWriterWins]_vars

(***************************************************************************)
(* C28: the switch notice of calls that share the bot, under SpecShared.   *)
(***************************************************************************)
\* C28 as stated (switch notice under concurrency): every call whose
\* successful candidate was not the first of its list returns the text
\* with the switched-model notice, and it is this call that set the
\* pointer to that candidate, whatever the other calls did meanwhile.
C28_AsStated ==
    /\ [](\A t \in Threads :
            LET c == call[t] IN
            (Done(c) /\ c.ret.kind = "success" /\ c.i > 0)
                => c.ret.notice = ModelDisplayName(Candidate(c)))
    /\ [][\A t \in Threads :
            FallbackSucceeds(t) => /\ current_model # Candidate(call[t])
                                   /\ current_model' = Candidate(call[t])]_vars

(***************************************************************************)
(* C25: the candidate lists of a sequence of calls, under Spec.            *)
(***************************************************************************)
\* where the model stands in the configured backups (0: nowhere)
BackupPosition(m) ==
    IF \E k \in 1..Len(BACKUP_MODELS) : BACKUP_MODELS[k] = m
    THEN CHOOSE k \in 1..Len(BACKUP_MODELS) : BACKUP_MODELS[k] = m
    ELSE 0

\* the list is the active model, then the configured backups other than
\* it, in configured order, no model twice
ActiveThenBackups(c) ==
    LET list == c.models_to_try IN
    /\ list[1] = c.ptr0
    /\ { list[k] : k \in 2..Len(list) }
         = { BACKUP_MODELS[k] : k \in 1..Len(BACKUP_MODELS) } \ {c.ptr0}
    /\ \A j, k \in 2..Len(list) :
          j < k => BackupPosition(list[j]) < BackupPosition(list[k])
    /\ \A j, k \in 1..Len(list) : j # k => list[j] # list[k]

\* the step sends a request to the primary model
RequestsPrimary ==
    \E t \in Threads :
        /\ Len(call'[t].reqs) > Len(call[t].reqs)
        /\ call'[t].reqs[Len(call'[t].reqs)] = PRIMARY_MODEL

\* C25 (candidate list construction over time): the candidate list of every
\* call is the active model followed by the configured backups other than
\* it, in configured order, no model twice; and in a sequence of calls,
\* once the pointer stands on a backup no request goes to the primary model
\* any more and the pointer does not return to it.
C25_CandidateLists ==
    /\ [](\A t \in Threads : call[t].pc # "idle" => ActiveThenBackups(call[t]))
    /\ [][current_model # PRIMARY_MODEL
            => /\ current_model' # PRIMARY_MODEL
               /\ ~RequestsPrimary]_vars

\* the call after a switch to the second backup has asked it, the first
\* backup and the third, in this order
C25_Witness ==
    /\ current_model = ShippedBackups[2]
    /\ call[1].ptr0 = ShippedBackups[2]
    /\ call[1].reqs = << ShippedBackups[2], ShippedBackups[1], ShippedBackups[3] >>

(***************************************************************************)
(* C26: the form records of two participants, under SpecStudy.             *)
(***************************************************************************)
\* every answer and question a form document holds was given by the
\* participant the document is keyed by
HoldsOwnFieldsOnly(doc) ==
    doc.key \in Users =>
        \A f \in {"a", "b"} : doc.fields[f] \in Users => doc.fields[f] = doc.key

\* C26 as stated (form isolation between participants): whatever the order
\* of the handler calls of two participants, every field submitted in a
\* call made with A's session id is in A's FormRecord only, never in B's.
C26_AsStated ==
    \A k \in 1..Len(forms) : HoldsOwnFieldsOnly(forms[k])


(***************************************************************************)
(* The chat handlers of src/study_handlers.py on the bot of src/chatbot.py *)
(* (theranostics_bot, line 15) and its logger of src/logging_module.py,    *)
(* serving two participants, one handler call at a time.  who, handler:    *)
(* the participant and the handler a generate call was made for.           *)
(***************************************************************************)
\* what a participant types or selects: each participant has a message of
\* their own
Asks(p) == IF p = "user-1" THEN "Hi" ELSE LongMessage

\* study_handlers.py 166-172, 216-217, 261-262: the copy of the gradio
\* history with the current message appended
ConversationHistory(history, message) ==
    history \o << Msg("user", Content("", message, Len(history) + 1)) >>

\* study_handlers.py 175-181 (lang="de"), 219-225 and 264-270
\* (get_chatbot_response, lines 34-45, whose lang defaults to "de"): the
\* handler passes the message and the appended copy to chatbot_response
TurnStarts(p, handler) ==
    /\ call[1].pc = "idle"
    /\ ncalls < MaxTurns
    /\ call' = [call EXCEPT ![1] =
                  [IdleCall EXCEPT !.pc = "loop",
                                   !.message = Asks(p),
                                   !.history = ConversationHistory(ui[p].history, Asks(p)),
                                   !.lang = "de",
                                   !.models_to_try = ModelsToTry(current_model, BACKUP_MODELS),
                                   !.ptr0 = current_model,
                                   !.who = p,
                                   !.handler = handler]]
    /\ ncalls' = ncalls + 1
    /\ UNCHANGED << BACKUP_MODELS, current_model, prev, logVars, storeVars, opVars >>

\* study_handlers.py 160-181, a message that is not blank
HandleChatbotMessage(p) == TurnStarts(p, "handle_chatbot_message")

\* study_handlers.py 208-225
HandlePredefinedQuestion(p) == TurnStarts(p, "handle_predefined_question")

\* study_handlers.py 255-270, a message that is not blank
HandleFollowUpQuestion(p) == TurnStarts(p, "handle_follow_up_question")

\* study_handlers.py 183-205, 227-252, 272-295: the handler takes the
\* response and calls logging_module.log_interaction, a name
\* src/logging_module.py does not define (its functions are log_conversation,
\* get_session_id and new_session): AttributeError leaves the handler, and
\* gradio keeps the history and the counter it had
HandlerRaises(t) == Return(t)

\* a bot with two backups whose logger stores every exchange
InitTurns ==
    /\ InitBot
    /\ BACKUP_MODELS = SubSeq(ShippedBackups, 1, 2)
    /\ InitStore(<< >>)
    /\ ENABLE_MONGODB = TRUE
    /\ ENABLE_FILE_LOGS = FALSE
    /\ connected = TRUE

NextTurns ==
    \/ \E p \in Users :
          \/ HandleChatbotMessage(p)
          \/ HandlePredefinedQuestion(p)
          \/ HandleFollowUpQuestion(p)
    \/ AttemptSucceeds(1)
    \/ AttemptFails(1)
    \/ HandlerRaises(1)

SpecTurns == InitTurns /\ [][NextTurns]_vars

(***************************************************************************)
(* C27: the conversation records of two participants, under SpecTurns.     *)
(***************************************************************************)
\* the participants whose exchanges a conversation document holds
AskedBy(doc) ==
    { p \in Users :
        \E k \in 1..Len(doc.conversation_history) :
            doc.conversation_history[k].user_message = Asks(p) }

\* C27 as stated (conversation records are per participant): an exchange
\* chatbot_response generates for one participant is never appended to a
\* record that also holds exchanges of another participant.
C27_AsStated ==
    \A d \in 1..Len(conversations) : Cardinality(AskedBy(conversations[d])) <= 1

(***************************************************************************)
(* C29: the request of a chat turn, under SpecTurns.                       *)
(***************************************************************************)
\* the positions of the request that hold the text of the current message
\* in a user message
HoldsCurrent(c) ==
    { k \in 1..Len(c.messages) :
        c.messages[k].role = "user" /\ c.messages[k].content.text = c.message }

\* the history part of the request: what is between the system prompt and
\* the final user message
HistoryPart(c) == SubSeq(c.messages, 2, Len(c.messages) - 1)

\* C29 as stated (the current user message is sent once): the request of a
\* chat turn holds the participant's current message exactly once, as the
\* final user message, and its history part holds messages of earlier
\* turns only.
C29_AsStated ==
    LET c == call[1] IN
    (c.handler # "" /\ c.reqs # << >>) =>
        /\ HoldsCurrent(c) = { Len(c.messages) }
        /\ \A k \in 1..Len(HistoryPart(c)) :
              HistoryPart(c)[k].role = "user" =>
                  HistoryPart(c)[k].content.turn <= Len(ui[c.who].history)

(***************************************************************************)
(* C30: the question counter and the next button, under SpecStudy.         *)
(***************************************************************************)
\* a chat handler call of p
ChatHandlerCall(p) ==
    HandleQuestion(p) \/ HandleBlankMessage(p) \/ HandleBlankFollowUp(p)

\* the counter goes up by one with a message that is not blank and stays
\* with a blank one
CountsQuestions ==
    \A p \in Users :
        /\ HandleQuestion(p) => ui'[p].question_count = ui[p].question_count + 1
        /\ (HandleBlankMessage(p) \/ HandleBlankFollowUp(p)) =>
              ui'[p].question_count = ui[p].question_count

\* the next button of a participant is visible exactly when the minimum
\* number of questions has been asked
NextButtonFollowsCount ==
    \A p \in Users : ui[p].next <=> (ui[p].question_count >= MINIMUM_QUESTIONS)

\* C30 as stated (question counter and next button): question_count goes up
\* by exactly one for each message that is not blank and is unchanged by a
\* blank one, and after any sequence of handler calls the next button is
\* visible if and only if question_count >= MINIMUM_QUESTIONS.
C30_AsStated ==
    [][CountsQuestions]_vars /\ []NextButtonFollowsCount

=============================================================================
